---- MODULE Spec2Model ----
(***************************************************************************)
(* Star-schema preparation and KPI scripts of the ride-hailing BI          *)
(* repository, as a state machine.                                         *)
(*                                                                         *)
(* Conventions of the model                                                *)
(*   - a table (DataFrame) is a sequence of records, in row order;         *)
(*   - a text value that the code concatenates or searches is a sequence   *)
(*     of one-character strings; labels that are only compared are strings;*)
(*   - a decimal number is an integer count of thousandths (120.000 is     *)
(*     120000); a value produced by a float division is a record           *)
(*     [k, n, d]: k = "num" is the rational number n/d, k = "inf"      *)
(*     and k = "nan" are the IEEE results of dividing by zero;             *)
(*   - a date is the 0-based day of the year 2024 (0 is 2024-01-01);       *)
(*   - Dataset.csv is never empty and has no missing cells; its header   *)
(*     may lack columns, and a cell under a column that the header lacks   *)
(*     is never read.                                                      *)
(***************************************************************************)
EXTENDS Integers, Sequences, FiniteSets, TLC

VARIABLES
    source,            \* rows of Dataset.csv, the input of every script
    source_columns,    \* header of Dataset.csv: the columns it holds
    clock,             \* wall clock read by datetime.now()
    previous,          \* outputs of the run that finished before a rerun
    prep_pc,           \* position of run_full_preparation
    df,                \* PowerBIDataPreparation.df
    fact_table,        \* PowerBIDataPreparation.fact_table
    dimension_tables,  \* PowerBIDataPreparation.dimension_tables
    workbook,          \* rapido_data_model.xlsx: sheet name -> rows
    artifacts,         \* other files of the output directory: name -> content
    prep_error,        \* exception that ended run_full_preparation, or None
    bi_pc,             \* position of the RapidoBusinessIntelligence run
    bi_df,             \* RapidoBusinessIntelligence.df
    kpis,              \* RapidoBusinessIntelligence.kpis
    bi_error,          \* exception that ended the analysis, or None
    metrics,           \* result of run_quick_analysis (hybrid dashboard)
    results,           \* files of ../analysis/business_insights/
    runs,              \* preparation processes that run side by side
    disk,              \* the files they write: resolved path -> file
    folder,            \* dashboard files of ../power_bi/data_model/
    repair,            \* the weather-repair script that runs, its locals
    quick_df           \* df of quick_analysis

vars == <<source, source_columns, clock, previous,
          prep_pc, df, fact_table, dimension_tables, workbook, artifacts,
          prep_error, bi_pc, bi_df, kpis, bi_error, metrics, results,
          runs, disk, folder, repair, quick_df>>

inputVars == <<source, source_columns>>
envVars == <<clock, previous>>
prepVars == <<prep_pc, df, fact_table, dimension_tables, workbook, artifacts,
              prep_error>>
biVars == <<bi_pc, bi_df, kpis, bi_error>>
\* the files written beside the preparation's output directory
otherVars == <<results, runs, disk, folder, repair, quick_df>>

----------------------------------------------------------------------------
(* Bounds of the explored inputs *)

MaxRides == 2
MaxHourRides == 1
MaxKpiRides == 3
MaxDateOffset == 3
MaxRouteRides == 2
MaxTopRoutes == 11
MaxRerunRides == 1
MaxClock == 2
MaxMissingColumns == 2
MaxConcurrentRides == 1
MaxRepairRides == 2
MaxWeatherRides == 2
MaxRepairRuns == 3

----------------------------------------------------------------------------
(* Generic helpers: pandas / numpy primitives *)

None == <<>>

Range(s) == {s[i] : i \in DOMAIN s}

Min(S) == CHOOSE m \in S : \A x \in S : m <= x

Max(S) == CHOOSE m \in S : \A x \in S : m >= x

RECURSIVE SortedSeq(_)
SortedSeq(S) ==
    IF S = {} THEN <<>>
    ELSE LET m == Min(S) IN <<m>> \o SortedSeq(S \ {m})

RECURSIVE SumSeq(_)
SumSeq(s) == IF s = <<>> THEN 0 ELSE Head(s) + SumSeq(Tail(s))

\* Series.sum() of a numeric column
Column(t, c) == [i \in 1..Len(t) |-> t[i][c]]

\* indices of the rows DataFrame.drop_duplicates / Series.unique keep:
\* the first row of every distinct key, in row order
FirstOccurrences(keys) ==
    SortedSeq({i \in 1..Len(keys) : \A j \in 1..(i - 1) : keys[j] # keys[i]})

\* numpy rint: round n/d (d > 0) to the nearest integer, ties to even
RoundHalfEven(n, d) ==
    LET q == n \div d
        r == n - q * d
    IN  IF 2 * r < d THEN q
        ELSE IF 2 * r > d THEN q + 1
        ELSE IF q % 2 = 0 THEN q ELSE q + 1

Abs(x) == IF x < 0 THEN -x ELSE x

RECURSIVE Gcd(_, _)
Gcd(a, b) == IF b = 0 THEN a ELSE Gcd(b, a % b)

\* a finite float: the rational n/d (d > 0) in lowest terms
Num(n, d) ==
    LET g == Gcd(Abs(n), d)
    IN  [k |-> "num", n |-> n \div g, d |-> d \div g]

Inf == [k |-> "inf", n |-> 1, d |-> 0]
NegInf == [k |-> "inf", n |-> -1, d |-> 0]
NaN == [k |-> "nan", n |-> 0, d |-> 0]

\* float64 division: x/0 is +-inf, 0/0 is nan, nothing is raised
TrueDiv(a, b) ==
    IF b = 0
    THEN IF a = 0 THEN NaN ELSE IF a > 0 THEN Inf ELSE NegInf
    ELSE Num(a, b)

\* a float times an integer constant
Times(f, c) == IF f.k = "num" THEN Num(f.n * c, f.d) ELSE f

\* float64 division of two floats
FloatDiv(f, g) ==
    IF f.k = "nan" \/ g.k = "nan" THEN NaN
    ELSE IF f.k = "inf"
         THEN IF g.k = "inf" THEN NaN
              ELSE IF (f.n < 0) = (g.n < 0) THEN Inf ELSE NegInf
    ELSE IF g.k = "inf" THEN Num(0, 1)
    ELSE IF g.n = 0
         THEN IF f.n = 0 THEN NaN ELSE IF f.n > 0 THEN Inf ELSE NegInf
    ELSE IF g.n > 0 THEN Num(f.n * g.d, f.d * g.n)
    ELSE Num(-(f.n * g.d), f.d * (-g.n))

\* a float minus an integer constant
Minus(f, c) == IF f.k = "num" THEN Num(f.n - c * f.d, f.d) ELSE f

\* Series.mean() of a column of decimals (thousandths); empty gives nan
Mean(col) ==
    IF Len(col) = 0 THEN NaN ELSE Num(SumSeq(col), 1000 * Len(col))

\* float64 addition and subtraction: inf - inf is nan
FloatAdd(f, g) ==
    IF f.k = "nan" \/ g.k = "nan" THEN NaN
    ELSE IF f.k = "inf"
         THEN IF g.k = "inf" /\ g.n # f.n THEN NaN ELSE f
    ELSE IF g.k = "inf" THEN g
    ELSE LET common == (f.d \div Gcd(f.d, g.d)) * g.d
         IN  Num(f.n * (common \div f.d) + g.n * (common \div g.d), common)

FloatSub(f, g) == FloatAdd(f, [g EXCEPT !.n = -g.n])

RECURSIVE FloatSum(_)
FloatSum(fs) ==
    IF Len(fs) = 0 THEN Num(0, 1)
    ELSE FloatAdd(fs[1], FloatSum(Tail(fs)))

\* Series.mean() of a column of floats: nan cells are skipped, inf cells
\* are not
MeanFloats(fs) ==
    LET cells == SelectSeq(fs, LAMBDA f : f.k # "nan")
    IN  IF Len(cells) = 0 THEN NaN
        ELSE FloatDiv(FloatSum(cells), Num(Len(cells), 1))

\* Series.round(2) of a float: inf and nan stay what they are
Round2(f) ==
    IF f.k = "num" THEN Num(RoundHalfEven(f.n * 100, f.d), 100) ELSE f

\* variant: one decimal is kept instead of two
Round2Dec_OneDecimal(x) == RoundHalfEven(x, 100) * 100

\* Series.round(2) of a stored decimal (thousandths)
Round2Dec(x) == RoundHalfEven(x, 10) * 10

\* pd.cut(x, bins, labels): right-closed bins (edges[i], edges[i+1]]; a value
\* outside every bin gets no label.  CutOpen: the last edge is float('inf')
Cut(x, edges, labels) ==
    LET hit == {i \in 1..Len(labels) : x > edges[i] /\ x <= edges[i + 1]}
    IN  IF hit = {} THEN None ELSE labels[Min(hit)]

CutOpen(x, edges, labels) ==
    LET hit == {i \in 1..Len(labels) :
                   /\ x > edges[i]
                   /\ (i = Len(labels) \/ x <= edges[i + 1])}
    IN  IF hit = {} THEN None ELSE labels[Min(hit)]

\* text helpers: substring test and str.lower on character sequences
Contains(s, sub) ==
    \E i \in 0..(Len(s) - Len(sub)) :
        \A j \in 1..Len(sub) : s[i + j] = sub[j]

UpperLetters == <<"A", "B", "C", "D", "E", "F", "G", "H", "I", "J", "K", "L",
                  "M", "N", "O", "P", "Q", "R", "S", "T", "U", "V", "W", "X",
                  "Y", "Z">>

LowerLetters == <<"a", "b", "c", "d", "e", "f", "g", "h", "i", "j", "k", "l",
                  "m", "n", "o", "p", "q", "r", "s", "t", "u", "v", "w", "x",
                  "y", "z">>

LowerChar(c) ==
    IF \E i \in 1..26 : UpperLetters[i] = c
    THEN LowerLetters[CHOOSE i \in 1..26 : UpperLetters[i] = c]
    ELSE c

Lower(s) == [i \in 1..Len(s) |-> LowerChar(s[i])]

\* the characters of the location names, in code point order
Alphabet == <<" ">> \o UpperLetters \o LowerLetters \o <<"→">>

CharRank(c) == CHOOSE i \in 1..Len(Alphabet) : Alphabet[i] = c

\* str < str
TextLess(a, b) ==
    \E k \in 1..(Len(a) + 1) :
        /\ \A j \in 1..(k - 1) : j <= Len(b) /\ a[j] = b[j]
        /\ k <= Len(b)
        /\ (k <= Len(a) => CharRank(a[k]) < CharRank(b[k]))

\* tuple < tuple, for the (from_location, to_location) keys of a groupby
PairLess(p, q) ==
    \/ TextLess(p[1], q[1])
    \/ (p[1] = q[1] /\ TextLess(p[2], q[2]))

\* the group keys of groupby([from_location, to_location]), sorted
SortedPairs(S) ==
    [i \in 1..Cardinality(S) |->
        CHOOSE p \in S : Cardinality({q \in S : PairLess(q, p)}) = i - 1]

\* Series.nlargest(n), keep='first': positions of the n largest values in
\* descending order, equal values in the order of the series
NLargest(values, n) ==
    LET Before(i, j) ==
            \/ values[i] > values[j]
            \/ (values[i] = values[j] /\ i < j)
        Position(i) == Cardinality({j \in 1..Len(values) : Before(j, i)}) + 1
    IN  [k \in 1..Min({n, Len(values)}) |->
            CHOOSE i \in 1..Len(values) : Position(i) = k]

----------------------------------------------------------------------------
(* Calendar of 2024 (Timestamp accessors) *)

MonthLengths == <<31, 29, 31, 30, 31, 30, 31, 31, 30, 31, 30, 31>>

MonthNames == <<"January", "February", "March", "April", "May", "June",
                "July", "August", "September", "October", "November",
                "December">>

DayNames == <<"Monday", "Tuesday", "Wednesday", "Thursday", "Friday",
              "Saturday", "Sunday">>

RECURSIVE DaysBefore(_)
DaysBefore(m) == IF m = 1 THEN 0 ELSE DaysBefore(m - 1) + MonthLengths[m - 1]

MonthOf(d) == Max({m \in 1..12 : DaysBefore(m) <= d})

DayOfMonth(d) == d - DaysBefore(MonthOf(d)) + 1

QuarterOf(d) == ((MonthOf(d) - 1) \div 3) + 1

\* 2024-01-01 is a Monday (dayofweek 0)
DayOfWeek(d) == d % 7

\* strftime('%Y%m%d').astype(int)
DateKey(d) == 2024 * 10000 + MonthOf(d) * 100 + DayOfMonth(d)

\* pd.date_range(start, end, freq='D')
DateRange(start, end) == [i \in 1..(end - start + 1) |-> start + i - 1]

----------------------------------------------------------------------------
(* Input rides *)

VIT == <<"V", "I", "T">>
BusStand == <<"B", "u", "s">>

BaseRide ==
    [ride_id |-> 0, date |-> 30, hour |-> 8,
     datetime |-> [date |-> 30, hour |-> 8],
     vehicle_type |-> "bike",
     from_location |-> VIT, to_location |-> BusStand,
     weather_condition |-> "Clear", weather_main |-> "Clear",
     weather_description |-> "clear sky",
     distance_km |-> 10000, base_price |-> 100000, final_price |-> 120000,
     surge_multiplier |-> 1200, waiting_time_minutes |-> 5000,
     price_premium_percent |-> 20000, temperature |-> 30000,
     humidity |-> 60000, precipitation |-> 0, wind_speed |-> 10000,
     visibility |-> 10000]

\* header of a Dataset.csv that holds every column the scripts select; a
\* row of the model carries the values of the columns the model computes
\* with
DatasetColumns ==
    {"ride_id", "datetime", "date", "hour", "month", "vehicle_type",
     "from_location", "to_location", "weather_condition", "weather_main",
     "weather_description", "distance_km", "base_price", "final_price",
     "surge_multiplier", "waiting_time_minutes", "price_premium_percent",
     "temperature", "humidity", "precipitation", "wind_speed", "visibility",
     "surge_amount", "price_per_km", "revenue_per_minute", "is_weekend",
     "distance_category", "quarter", "day_of_week"}

At(r, d, h) ==
    [r EXCEPT !.date = d, !.hour = h, !.datetime = [date |-> d, hour |-> h]]

Rain(r, description) ==
    [r EXCEPT !.weather_condition = "Rain", !.weather_main = "Rain",
              !.weather_description = description,
              !.surge_multiplier = 1800]

Priced(r, base, final, distance, wait) ==
    [r EXCEPT !.base_price = base, !.final_price = final,
              !.distance_km = distance, !.waiting_time_minutes = wait]

\* ride profiles of the preparation scenarios: gaps in the date axis, two
\* description variants of one weather condition, zero distances, a price
\* with three decimals, a vehicle type outside the lookup
RideProfiles ==
    { BaseRide,
      [At(BaseRide, 31, 14) EXCEPT !.vehicle_type = "cab"],
      [At(BaseRide, 30 + MaxDateOffset, 23) EXCEPT
           !.vehicle_type = "scooter",
           !.from_location = BusStand, !.to_location = VIT],
      Rain(BaseRide, "light rain"),
      Rain(At(BaseRide, 31, 17), "heavy rain"),
      Priced(At(BaseRide, 30, 18), 50000, 90000, 0, 5000),
      Priced(BaseRide, 0, 0, 0, 0),
      Priced(BaseRide, 50000, 90254, 5000, 2000) }

\* ride profiles of the repair scenarios: two descriptions of one weather
\* condition, a condition outside the lookups, a zero distance
RepairProfiles ==
    { BaseRide,
      Rain(BaseRide, "light rain"),
      Rain(At(BaseRide, 31, 17), "heavy rain"),
      [BaseRide EXCEPT !.weather_condition = "Mist",
                       !.weather_main = "Mist",
                       !.weather_description = "mist"],
      Priced(Rain(At(BaseRide, 30, 18), "heavy rain"),
             50000, 90000, 0, 5000) }

\* ride profiles of the weather scenarios: the five conditions of the
\* lookups and one that they lack
WeatherProfiles ==
    {[BaseRide EXCEPT !.weather_condition = condition,
                      !.weather_main = condition] :
        condition \in {"Clear", "Clouds", "Haze", "Rain", "Thunderstorm",
                       "Mist"}}

\* ride profiles of the hour scenarios: the hour column takes every value
\* from -1 to 24; the timestamp keeps a valid hour
HourProfiles ==
    {[BaseRide EXCEPT !.hour = h,
                      !.datetime = [date |-> 30,
                                    hour |-> IF h \in 0..23 THEN h ELSE 8]] :
        h \in -1..24}

\* ride profiles of the KPI scenarios: (base, final, distance, hour)
KpiProfiles ==
    { Priced(At(BaseRide, 30, 8), 100000, 120000, 10000, 5000),
      Priced(At(BaseRide, 30, 14), 100000, 100000, 5000, 5000),
      Priced(At(BaseRide, 30, 18), 50000, 90000, 0, 5000),
      Priced(At(BaseRide, 31, 9), 80000, 100000, 4000, 5000),
      Priced(At(BaseRide, 31, 19), 80000, 80000, 4000, 5000) }

\* ride profiles of the route scenarios: two rides of one route, one of
\* them with a distance of three decimals, and two routes whose location
\* names hold the separator of the route identifier
RouteProfiles ==
    { BaseRide,
      Priced(BaseRide, 50000, 90000, 5006, 2000),
      [BaseRide EXCEPT !.from_location = <<"A">>,
                       !.to_location = <<"B", " ", "→", " ", "C">>],
      [Priced(BaseRide, 50000, 90000, 4000, 2000) EXCEPT
           !.from_location = <<"A", " ", "→", " ", "B">>,
           !.to_location = <<"C">>] }

\* a ride of the j-th of MaxTopRoutes routes, which all end at VIT
TopRide(j, price) ==
    [BaseRide EXCEPT !.from_location = <<UpperLetters[j]>>,
                     !.to_location = VIT, !.base_price = price,
                     !.final_price = price, !.surge_multiplier = 1000]

\* datasets of the ranking scenarios: n rides that walk through the routes
\* upwards or downwards from a starting route, all at one price except the
\* rides of at most one route
TopDatasets ==
    {[i \in 1..n |->
         LET j == ((start + step * i) % MaxTopRoutes) + 1
         IN  [TopRide(j, IF j = high THEN 150000 ELSE 120000)
                  EXCEPT !.ride_id = i]] :
        n \in {3, MaxTopRoutes - 1, MaxTopRoutes, MaxTopRoutes + 1},
        start \in 0..(MaxTopRoutes - 1),
        step \in {1, MaxTopRoutes - 1},
        high \in 0..MaxTopRoutes}

\* ride profiles of the rerun scenarios
RerunProfiles ==
    { BaseRide,
      Rain(At(BaseRide, 31, 17), "heavy rain"),
      [At(BaseRide, 30 + MaxDateOffset, 23) EXCEPT
           !.vehicle_type = "scooter",
           !.from_location = BusStand, !.to_location = VIT] }

\* headers of the schema scenarios: Dataset.csv without up to
\* MaxMissingColumns of the columns below, which are read at different
\* places of the scripts
DroppableColumns ==
    {"datetime", "final_price", "to_location", "vehicle_type",
     "weather_main", "temperature", "distance_category", "month"}

Headers ==
    {DatasetColumns \ absent :
        absent \in {S \in SUBSET DroppableColumns :
                        Cardinality(S) <= MaxMissingColumns}}

SeqsUpTo(S, n) == UNION {[1..m -> S] : m \in 1..n}

\* the file's rows carry their position as ride_id
Numbered(rows) == [i \in 1..Len(rows) |-> [rows[i] EXCEPT !.ride_id = i]]

Datasets(S, n) == {Numbered(rows) : rows \in SeqsUpTo(S, n)}

----------------------------------------------------------------------------
(* PowerBIDataPreparation *)

\* state after construction: nothing loaded, no table built
InitObjects ==
    /\ prep_pc = "new"
    /\ df = None
    /\ fact_table = None
    /\ dimension_tables = <<>>
    /\ prep_error = None
    /\ bi_pc = "new"
    /\ bi_df = None
    /\ kpis = <<>>
    /\ bi_error = None
    /\ metrics = <<>>
    /\ quick_df = None

\* an output directory without files, before any run
InitFiles ==
    /\ workbook = <<>>
    /\ artifacts = <<>>
    /\ results = <<>>
    /\ clock = 0
    /\ previous = None

\* no preparation process besides the one of prep_pc
InitAlone == runs = <<>> /\ disk = <<>> /\ folder = <<>> /\ repair = None

InitComplete ==
    source_columns = DatasetColumns /\ InitObjects /\ InitFiles /\ InitAlone

Init == source \in Datasets(RideProfiles, MaxRides) /\ InitComplete

InitHours == source \in Datasets(HourProfiles, MaxHourRides) /\ InitComplete

InitKpi == source \in Datasets(KpiProfiles, MaxKpiRides) /\ InitComplete

InitRerun ==
    source \in Datasets(RerunProfiles, MaxRerunRides) /\ InitComplete

InitSchema ==
    /\ source \in Datasets({BaseRide}, 1)
    /\ source_columns \in Headers
    /\ InitObjects
    /\ InitFiles
    /\ InitAlone

InitTop == source \in TopDatasets /\ InitComplete

InitWeather ==
    source \in Datasets(WeatherProfiles, MaxWeatherRides) /\ InitComplete

InitRoutes ==
    source \in Datasets(RouteProfiles, MaxRouteRides) /\ InitComplete

RouteSeparator == <<" ", "→", " ">>

\* the cells of a row under the columns of a header
Visible(r, header) == [c \in DOMAIN r \cap header |-> r[c]]

\* the columns of the list that the header lacks, in the list's order
MissingOf(columns, header) == SelectSeq(columns, LAMBDA c : c \notin header)

\* the column whose access raises: the first one that the header lacks
FirstMissing(columns, header) == Head(MissingOf(columns, header))

\* df[column] and df[[columns]] on absent columns
KeyError(columns) == [type |-> "KeyError", columns |-> columns]

\* the statements of load_and_prepare_source_data in order: the columns
\* each one reads and the column it adds
LoadStatements ==
    << [reads |-> <<"datetime">>, adds |-> {}],
       [reads |-> <<"date">>, adds |-> {}],
       [reads |-> <<"final_price">>, adds |-> {"revenue_category"}],
       [reads |-> <<"surge_multiplier">>, adds |-> {"surge_category"}],
       [reads |-> <<"from_location", "to_location">>,
        adds |-> {"location_route_id"}],
       [reads |-> <<"weather_condition", "weather_description">>,
        adds |-> {"weather_condition_id"}] >>

\* index of the first statement that reads an absent column, or 0
FailingStatement(statements, header) ==
    LET failing == {i \in 1..Len(statements) :
                       MissingOf(statements[i].reads, header) # <<>>}
    IN  IF failing = {} THEN 0 ELSE Min(failing)

PrepareSourceRow(r) ==
    r @@
    [revenue_category |->
         CutOpen(r.final_price, <<0, 50000, 100000, 200000>>,
             <<"Low", "Medium", "High", "Premium">>),
     surge_category |->
         CutOpen(r.surge_multiplier, <<0, 1200, 1500, 2000>>,
             <<"Normal", "Low Surge", "High Surge", "Peak Surge">>),
     location_route_id |->
         r.from_location \o RouteSeparator \o r.to_location,
     weather_condition_id |->
         r.weather_condition \o "_" \o r.weather_description]

\* columns of self.df after a successful load
LoadedColumns(header) ==
    header \cup UNION {LoadStatements[i].adds : i \in 1..Len(LoadStatements)}

\* the row with the derived columns of the statements before statement k
PartialSourceRow(r, k) ==
    LET added == UNION {LoadStatements[i].adds : i \in 1..(k - 1)}
        full == PrepareSourceRow(r)
    IN  [c \in DOMAIN r \cup added |-> full[c]]

load_and_prepare_source_data ==
    /\ prep_pc = "new"
    /\ LET k == FailingStatement(LoadStatements, source_columns)
           columns == LoadedColumns(source_columns)
       IN  IF k = 0
           THEN /\ df' = [i \in 1..Len(source) |->
                            Visible(PrepareSourceRow(source[i]), columns)]
                /\ prep_pc' = "loaded"
                /\ UNCHANGED prep_error
           ELSE /\ df' = [i \in 1..Len(source) |->
                            Visible(PartialSourceRow(source[i], k), columns)]
                /\ prep_pc' = "failed"
                /\ prep_error' =
                       KeyError({FirstMissing(LoadStatements[k].reads,
                                              source_columns)})
    /\ UNCHANGED <<inputVars, otherVars, envVars, fact_table, dimension_tables, workbook,
                   artifacts, biVars, metrics>>

fact_columns ==
    <<"ride_id", "datetime", "date", "vehicle_type", "location_route_id",
      "weather_condition", "distance_km", "base_price", "final_price",
      "surge_multiplier", "waiting_time_minutes", "price_premium_percent",
      "temperature", "humidity", "precipitation", "wind_speed", "visibility",
      "surge_amount", "price_per_km", "revenue_per_minute">>

FactRow(r) ==
    LET estimated_trip_time == r.distance_km * 3
        total_time == r.waiting_time_minutes + estimated_trip_time
    IN  [ride_id |-> ToString(r.ride_id),
         datetime |-> r.datetime,
         date |-> r.date,
         vehicle_type |-> r.vehicle_type,
         location_route_id |-> r.location_route_id,
         weather_condition |-> r.weather_condition,
         distance_km |-> Round2Dec(r.distance_km),
         base_price |-> Round2Dec(r.base_price),
         final_price |-> Round2Dec(r.final_price),
         surge_multiplier |-> Round2Dec(r.surge_multiplier),
         waiting_time_minutes |-> r.waiting_time_minutes,
         price_premium_percent |-> Round2Dec(r.price_premium_percent),
         temperature |-> r.temperature,
         humidity |-> r.humidity,
         precipitation |-> r.precipitation,
         wind_speed |-> r.wind_speed,
         visibility |-> r.visibility,
         surge_amount |-> Round2Dec(r.final_price - r.base_price),
         price_per_km |-> Round2(TrueDiv(r.final_price, r.distance_km)),
         revenue_per_minute |-> Round2(TrueDiv(r.final_price, total_time))]

\* variant: rides with a zero distance are left out of the fact table
FactTableOf_SkipZeroDistance(d) ==
    LET kept == SelectSeq(d, LAMBDA r : r.distance_km # 0)
    IN  [i \in 1..Len(kept) |-> FactRow(kept[i])]

FactTableOf(d) == [i \in 1..Len(d) |-> FactRow(d[i])]

create_fact_table ==
    /\ prep_pc = "loaded"
    /\ LET absent == Range(fact_columns) \ LoadedColumns(source_columns)
       IN  IF absent = {}
           THEN /\ fact_table' = FactTableOf(df)
                /\ prep_pc' = "fact"
                /\ UNCHANGED prep_error
           ELSE /\ prep_pc' = "failed"
                /\ prep_error' = KeyError(absent)
                /\ UNCHANGED fact_table
    /\ UNCHANGED <<inputVars, otherVars, envVars, df, dimension_tables, workbook,
                   artifacts, biVars, metrics>>

get_season(month) ==
    IF month \in {12, 1, 2} THEN "Winter"
    ELSE IF month \in {3, 4, 5} THEN "Spring"
    ELSE IF month \in {6, 7, 8} THEN "Summer"
    ELSE "Autumn"

\* the literal list of 2024 holidays, as (month, day)
indian_holidays ==
    {<<1, 26>>, <<3, 8>>, <<4, 14>>, <<8, 15>>, <<10, 2>>, <<10, 31>>,
     <<12, 25>>}

\* isocalendar().week inside 2024: the year starts on a Monday; its last two
\* days belong to week 1 of 2025
WeekOfYear(d) == IF d >= 364 THEN 1 ELSE (d \div 7) + 1

TimeRow(d) ==
    [date |-> d,
     year |-> 2024,
     quarter |-> QuarterOf(d),
     month |-> MonthOf(d),
     month_name |-> MonthNames[MonthOf(d)],
     week_of_year |-> WeekOfYear(d),
     day_of_year |-> d + 1,
     day_of_month |-> DayOfMonth(d),
     day_of_week |-> DayOfWeek(d),
     day_name |-> DayNames[DayOfWeek(d) + 1],
     is_weekend |-> DayOfWeek(d) \in {5, 6},
     is_month_start |-> DayOfMonth(d) = 1,
     is_month_end |-> DayOfMonth(d) = MonthLengths[MonthOf(d)],
     is_quarter_start |-> DayOfMonth(d) = 1 /\ MonthOf(d) \in {1, 4, 7, 10},
     is_quarter_end |->
         /\ DayOfMonth(d) = MonthLengths[MonthOf(d)]
         /\ MonthOf(d) \in {3, 6, 9, 12},
     fiscal_year |-> 2024,
     fiscal_quarter |-> QuarterOf(d),
     season |-> get_season(MonthOf(d)),
     is_holiday |-> <<MonthOf(d), DayOfMonth(d)>> \in indian_holidays,
     date_key |-> DateKey(d)]

\* variant: the date axis lists the observed dates only
unique_dates_Observed(d) == SortedSeq(Range(Column(d, "date")))

\* the date axis: every day from the smallest to the largest ride date
unique_dates(d) ==
    DateRange(Min(Range(Column(d, "date"))), Max(Range(Column(d, "date"))))

\* variant: every row carries the time at which the table is built
TimeDimensionOf_Stamped(d) ==
    LET dates == unique_dates(d)
    IN  [i \in 1..Len(dates) |-> TimeRow(dates[i]) @@ [created |-> clock]]

TimeDimensionOf(d) ==
    LET dates == unique_dates(d)
    IN  [i \in 1..Len(dates) |-> TimeRow(dates[i])]

create_time_dimension ==
    /\ prep_pc = "fact"
    /\ dimension_tables' =
           dimension_tables @@ ("time_dimension" :> TimeDimensionOf(df))
    /\ prep_pc' = "time"
    /\ UNCHANGED <<inputVars, otherVars, envVars, df, fact_table, workbook,
                   artifacts, prep_error, biVars, metrics>>

get_time_period(hour) ==
    IF 0 <= hour /\ hour < 6 THEN "Late Night"
    ELSE IF 6 <= hour /\ hour < 8 THEN "Early Morning"
    ELSE IF 8 <= hour /\ hour < 10 THEN "Morning Rush"
    ELSE IF 10 <= hour /\ hour < 12 THEN "Late Morning"
    ELSE IF 12 <= hour /\ hour < 14 THEN "Lunch Time"
    ELSE IF 14 <= hour /\ hour < 17 THEN "Afternoon"
    ELSE IF 17 <= hour /\ hour < 19 THEN "Evening Rush"
    ELSE IF 19 <= hour /\ hour < 22 THEN "Evening"
    ELSE "Night"

HourRow(h) ==
    [hour |-> h,
     time_period |-> get_time_period(h),
     is_business_hour |-> 9 <= h /\ h <= 18,
     is_rush_hour |-> h \in {8, 9, 17, 18},
     is_peak_demand |-> h \in {8, 9, 17, 18, 19},
     hour_category |->
         Cut(h, <<-1, 6, 12, 18, 24>>,
             <<"Night", "Morning", "Afternoon", "Evening">>)]

\* variant: one row per hour observed in the rides
HourDimension_Observed ==
    LET hours == SortedSeq(Range(Column(df, "hour")))
    IN  [i \in 1..Len(hours) |-> HourRow(hours[i])]

HourDimension == [i \in 1..24 |-> HourRow(i - 1)]

create_hour_dimension ==
    /\ prep_pc = "time"
    /\ dimension_tables' =
           dimension_tables @@ ("hour_dimension" :> HourDimension)
    /\ prep_pc' = "hour"
    /\ UNCHANGED <<inputVars, otherVars, envVars, df, fact_table, workbook,
                   artifacts, prep_error, biVars, metrics>>

Text(word) ==
    CASE word = "hospital" -> <<"h", "o", "s", "p", "i", "t", "a", "l">>
      [] word = "medical" -> <<"m", "e", "d", "i", "c", "a", "l">>
      [] word = "station" -> <<"s", "t", "a", "t", "i", "o", "n">>
      [] word = "railway" -> <<"r", "a", "i", "l", "w", "a", "y">>
      [] word = "road" -> <<"r", "o", "a", "d">>
      [] word = "street" -> <<"s", "t", "r", "e", "e", "t">>
      [] word = "bus" -> <<"b", "u", "s">>
      [] word = "stand" -> <<"s", "t", "a", "n", "d">>

AnyKeyword(location, words) ==
    \E w \in words : Contains(Lower(location), Text(w))

categorize_location(location) ==
    IF Contains(location, VIT) THEN "University"
    ELSE IF AnyKeyword(location, {"hospital", "medical"}) THEN "Healthcare"
    ELSE IF AnyKeyword(location, {"station", "railway"})
         THEN "Transportation Hub"
    ELSE IF AnyKeyword(location, {"road", "street"})
         THEN "Residential/Commercial"
    ELSE IF AnyKeyword(location, {"bus", "stand"}) THEN "Bus Terminal"
    ELSE "General"

LocationDimensionOf(d) ==
    LET both == Column(d, "from_location") \o Column(d, "to_location")
        first == FirstOccurrences(both)
    IN  [i \in 1..Len(first) |->
            [location_name |-> both[first[i]],
             location_id |-> i,
             location_category |-> categorize_location(both[first[i]])]]

\* groupby('location_route_id').agg(...).round(2), for one route key
route_stats(d, key) ==
    LET rows == SelectSeq(d, LAMBDA r : r.location_route_id = key)
        distances == Column(rows, "distance_km")
    IN  [avg_distance |-> Round2(Mean(distances)),
         min_distance |-> Round2Dec(Min(Range(distances))),
         max_distance |-> Round2Dec(Max(Range(distances))),
         avg_price |-> Round2(Mean(Column(rows, "final_price"))),
         total_trips |-> Len(rows)]

\* a rounded float back in thousandths, to compare it with bin edges
Thousandths(f) == (f.n * 1000) \div f.d

RouteRow(d, i) ==
    LET r == d[i]
        stats == route_stats(d, r.location_route_id)
    IN  [from_location |-> r.from_location,
         to_location |-> r.to_location,
         location_route_id |-> r.location_route_id,
         route_id |-> i,
         avg_distance |-> stats.avg_distance,
         min_distance |-> stats.min_distance,
         max_distance |-> stats.max_distance,
         avg_price |-> stats.avg_price,
         total_trips |-> stats.total_trips,
         distance_category |->
             CutOpen(Thousandths(stats.avg_distance),
                     <<0, 5000, 10000, 15000>>,
                     <<"Short", "Medium", "Long", "Extra Long">>),
         popularity_category |->
             CutOpen(stats.total_trips, <<0, 50, 200, 500>>,
                     <<"Low", "Medium", "High", "Very High">>)]

RouteDimensionOf(d) ==
    LET first == FirstOccurrences(
                     [i \in 1..Len(d) |->
                         <<d[i].from_location, d[i].to_location,
                           d[i].location_route_id>>])
    IN  [i \in 1..Len(first) |-> RouteRow(d, first[i])]

create_location_dimension ==
    /\ prep_pc = "hour"
    /\ dimension_tables' =
           dimension_tables
               @@ ("location_dimension" :> LocationDimensionOf(df))
               @@ ("route_dimension" :> RouteDimensionOf(df))
    /\ prep_pc' = "location"
    /\ UNCHANGED <<inputVars, otherVars, envVars, df, fact_table, workbook,
                   artifacts, prep_error, biVars, metrics>>

categorize_weather_impact(condition) ==
    IF condition \in {"Rain", "Thunderstorm"} THEN "High Impact"
    ELSE IF condition \in {"Clouds", "Haze"} THEN "Medium Impact"
    ELSE IF condition \in {"Clear"} THEN "Low Impact"
    ELSE "Unknown"

get_weather_severity(condition) ==
    CASE condition = "Clear" -> 1
      [] condition = "Clouds" -> 2
      [] condition = "Haze" -> 3
      [] condition = "Rain" -> 4
      [] condition = "Thunderstorm" -> 5
      [] OTHER -> 0

get_expected_surge(condition) ==
    CASE condition = "Clear" -> 1100
      [] condition = "Clouds" -> 1300
      [] condition = "Haze" -> 1400
      [] condition = "Rain" -> 1800
      [] condition = "Thunderstorm" -> 2200
      [] OTHER -> 1000

\* the rows kept by df[[condition, main, description]].drop_duplicates()
weather_combinations(d) ==
    FirstOccurrences(
        [i \in 1..Len(d) |->
            <<d[i].weather_condition, d[i].weather_main,
              d[i].weather_description>>])

WeatherRow(r, i) ==
    [weather_condition |-> r.weather_condition,
     weather_main |-> r.weather_main,
     weather_description |-> r.weather_description,
     weather_id |-> i,
     impact_category |-> categorize_weather_impact(r.weather_condition),
     severity_score |-> get_weather_severity(r.weather_condition),
     expected_surge_multiplier |-> get_expected_surge(r.weather_condition)]

WeatherDimensionOf(d) ==
    LET first == weather_combinations(d)
    IN  [i \in 1..Len(first) |-> WeatherRow(d[first[i]], first[i])]

create_weather_dimension ==
    /\ prep_pc = "location"
    /\ LET absent == {"weather_condition", "weather_main",
                      "weather_description"} \ LoadedColumns(source_columns)
       IN  IF absent = {}
           THEN /\ dimension_tables' =
                       dimension_tables
                           @@ ("weather_dimension" :> WeatherDimensionOf(df))
                /\ prep_pc' = "weather"
                /\ UNCHANGED prep_error
           ELSE /\ prep_pc' = "failed"
                /\ prep_error' = KeyError(absent)
                /\ UNCHANGED dimension_tables
    /\ UNCHANGED <<inputVars, otherVars, envVars, df, fact_table, workbook,
                   artifacts, biVars, metrics>>

vehicle_characteristics ==
    [bike |-> [capacity |-> 1, base_fare_per_km |-> 12,
               surge_sensitivity |-> "High", weather_impact |-> "High",
               category |-> "Two Wheeler"],
     auto |-> [capacity |-> 3, base_fare_per_km |-> 18,
               surge_sensitivity |-> "Medium", weather_impact |-> "Medium",
               category |-> "Three Wheeler"],
     cab |-> [capacity |-> 4, base_fare_per_km |-> 25,
              surge_sensitivity |-> "Low", weather_impact |-> "Low",
              category |-> "Four Wheeler"]]

\* the characteristic columns exist once one observed type is in the lookup;
\* a type outside the lookup keeps empty cells in them
VehicleRow(v, i, enriched) ==
    LET key == [vehicle_type |-> v, vehicle_id |-> i]
        empty == [capacity |-> None, base_fare_per_km |-> None,
                  surge_sensitivity |-> None, weather_impact |-> None,
                  category |-> None]
    IN  IF ~enriched THEN key
        ELSE IF v \in DOMAIN vehicle_characteristics
             THEN key @@ vehicle_characteristics[v]
             ELSE key @@ empty

\* variant: the dimension lists the lookup's types instead of the observed
VehicleDimensionOf_LookupOnly(d) ==
    LET types == SelectSeq(Column(d, "vehicle_type"),
                           LAMBDA v : v \in DOMAIN vehicle_characteristics)
        first == FirstOccurrences(types)
    IN  [i \in 1..Len(first) |-> VehicleRow(types[first[i]], i, TRUE)]

\* variant: one row per ride, without unique()
VehicleDimensionOf_PerRide(d) ==
    LET types == Column(d, "vehicle_type")
        enriched == \E i \in 1..Len(types) :
                        types[i] \in DOMAIN vehicle_characteristics
    IN  [i \in 1..Len(types) |-> VehicleRow(types[i], i, enriched)]

VehicleDimensionOf(d) ==
    LET types == Column(d, "vehicle_type")
        first == FirstOccurrences(types)
        enriched == \E i \in 1..Len(types) :
                        types[i] \in DOMAIN vehicle_characteristics
    IN  [i \in 1..Len(first) |-> VehicleRow(types[first[i]], i, enriched)]

create_vehicle_dimension ==
    /\ prep_pc = "weather"
    /\ dimension_tables' =
           dimension_tables
               @@ ("vehicle_dimension" :> VehicleDimensionOf(df))
    /\ prep_pc' = "vehicle"
    /\ UNCHANGED <<inputVars, otherVars, envVars, df, fact_table, workbook,
                   artifacts, prep_error, biVars, metrics>>

\* table_name.replace('_dimension', '').title(), prefixed with Dim
SheetName(table_name) ==
    CASE table_name = "time_dimension" -> "DimTime"
      [] table_name = "hour_dimension" -> "DimHour"
      [] table_name = "location_dimension" -> "DimLocation"
      [] table_name = "route_dimension" -> "DimRoute"
      [] table_name = "weather_dimension" -> "DimWeather"
      [] table_name = "vehicle_dimension" -> "DimVehicle"

\* open(name, 'w'): the file is created or replaced
WriteFile(files, name, content) ==
    [n \in DOMAIN files \cup {name} |->
        IF n = name THEN content ELSE files[n]]

\* the measures file is a fixed text
create_dax_measures ==
    /\ prep_pc = "vehicle"
    /\ artifacts' =
           WriteFile(artifacts, "dax_measures.txt",
               "# DAX Measures for Rapido Transportation BI Dashboard")
    /\ prep_pc' = "dax"
    /\ UNCHANGED <<inputVars, otherVars, envVars, df, fact_table, dimension_tables,
                   workbook, prep_error, biVars, metrics>>

\* the sheets that the ExcelWriter block writes
WorkbookOf(fact, dimensions) ==
    [sheet \in {"FactRides"} \cup {SheetName(t) : t \in DOMAIN dimensions} |->
        IF sheet = "FactRides" THEN fact
        ELSE dimensions[CHOOSE t \in DOMAIN dimensions : SheetName(t) = sheet]]

export_to_excel ==
    /\ prep_pc = "dax"
    /\ workbook' = WorkbookOf(fact_table, dimension_tables)
    /\ prep_pc' = "exported"
    /\ UNCHANGED <<inputVars, otherVars, envVars, df, fact_table, dimension_tables,
                   artifacts, prep_error, biVars, metrics>>

Relationship(from_column, to_table, to_column) ==
    [from_table |-> "FactRides", from_column |-> from_column,
     to_table |-> to_table, to_column |-> to_column,
     relationship_type |-> "Many-to-One"]

\* the relationships listed by the documentation and by the setup guide
relationships ==
    << Relationship("date", "DimTime", "date"),
       Relationship("hour", "DimHour", "hour"),
       Relationship("vehicle_type", "DimVehicle", "vehicle_type"),
       Relationship("weather_condition", "DimWeather", "weather_condition"),
       Relationship("location_route_id", "DimRoute", "location_route_id") >>

\* table_data.columns[0]
FirstColumn(table_name) ==
    CASE table_name = "time_dimension" -> "date"
      [] table_name = "hour_dimension" -> "hour"
      [] table_name = "location_dimension" -> "location_name"
      [] table_name = "route_dimension" -> "from_location"
      [] table_name = "weather_dimension" -> "weather_condition"
      [] table_name = "vehicle_dimension" -> "vehicle_type"

\* list(table.columns), as a set, read off the first row
ColumnsOf(table) == IF Len(table) = 0 THEN {} ELSE DOMAIN table[1]

documentationOf(d, fact, dimensions, now) ==
    [data_model_overview |->
         [schema_type |-> "Star Schema",
          fact_table |-> "FactRides",
          dimension_tables |-> DOMAIN dimensions,
          total_records |-> Len(fact),
          date_range |-> <<Min(Range(Column(d, "date"))),
                           Max(Range(Column(d, "date")))>>,
          created_date |-> now],
     fact_table_details |->
         [table_name |-> "FactRides",
          primary_key |-> "ride_id",
          record_count |-> Len(fact),
          columns |-> ColumnsOf(fact),
          measures |->
              ColumnsOf(fact) \cap
                  {"distance_km", "base_price", "final_price",
                   "surge_multiplier", "waiting_time_minutes",
                   "price_premium_percent", "surge_amount"},
          foreign_keys |-> <<"datetime", "vehicle_type", "weather_condition",
                             "location_route_id">>],
     dimension_tables_details |->
         [t \in DOMAIN dimensions |->
             [record_count |-> Len(dimensions[t]),
              columns |-> ColumnsOf(dimensions[t]),
              primary_key |-> FirstColumn(t)]],
     relationships |-> relationships]

documentation(now) ==
    documentationOf(df, fact_table, dimension_tables, now)

create_data_model_documentation ==
    /\ prep_pc = "exported"
    /\ artifacts' =
           WriteFile(artifacts, "data_model_documentation.json",
               documentation(clock))
    /\ prep_pc' = "documented"
    /\ UNCHANGED <<inputVars, otherVars, envVars, df, fact_table, dimension_tables,
                   workbook, prep_error, biVars, metrics>>

\* the guide is a fixed text; the model keeps its list of relationships
setup_guide == [relationships |-> relationships]

generate_power_bi_setup_guide ==
    /\ prep_pc = "documented"
    /\ artifacts' =
           WriteFile(artifacts, "power_bi_setup_guide.md", setup_guide)
    /\ prep_pc' = "done"
    /\ UNCHANGED <<inputVars, otherVars, envVars, df, fact_table, dimension_tables,
                   workbook, prep_error, biVars, metrics>>

----------------------------------------------------------------------------
(* run_full_preparation in several processes *)

Runs == {1, 2}

\* the output_dir given to a run, as path components relative to the
\* working directory; the first one is the default of __init__
OutputDirs ==
    {<<"..", "power_bi", "data_model">>,
     <<"..", "power_bi", "staging">>,
     <<"..", "archive", "data_model">>}

\* the file that the operating system opens for a path: a component
\* followed by ".." is dropped with it
RECURSIVE Resolved(_, _)
Resolved(done, path) ==
    IF path = <<>> THEN done
    ELSE IF /\ Head(path) = ".."
            /\ done # <<>>
            /\ done[Len(done)] # ".."
         THEN Resolved(SubSeq(done, 1, Len(done) - 1), Tail(path))
         ELSE Resolved(Append(done, Head(path)), Tail(path))

\* os.path.join(self.output_dir, name)
Join(output_dir, name) == Resolved(<<>>, output_dir \o name)

\* the files of a run in the order in which run_full_preparation opens
\* them, each with the name joined to output_dir
OutputFiles ==
    << [file |-> "dax_measures.txt",
        name |-> <<"..", "measures", "dax_measures.txt">>],
       [file |-> "rapido_data_model.xlsx",
        name |-> <<"rapido_data_model.xlsx">>],
       [file |-> "data_model_documentation.json",
        name |-> <<"data_model_documentation.json">>],
       [file |-> "power_bi_setup_guide.md",
        name |-> <<"..", "templates", "power_bi_setup_guide.md">>] >>

PathOf(output_dir, k) == Join(output_dir, OutputFiles[k].name)

\* the tables that a run builds from Dataset.csv before it opens a file
DimensionTablesOf(d) ==
    ("time_dimension" :> TimeDimensionOf(d))
        @@ ("hour_dimension" :> HourDimension)
        @@ ("location_dimension" :> LocationDimensionOf(d))
        @@ ("route_dimension" :> RouteDimensionOf(d))
        @@ ("weather_dimension" :> WeatherDimensionOf(d))
        @@ ("vehicle_dimension" :> VehicleDimensionOf(d))

\* what a run writes into its k-th file
ContentOf(k, src, now) ==
    LET d == [i \in 1..Len(src) |-> PrepareSourceRow(src[i])]
        fact == FactTableOf(d)
        dimensions == DimensionTablesOf(d)
    IN  CASE k = 1 -> "# DAX Measures for Rapido Transportation BI Dashboard"
          [] k = 2 -> WorkbookOf(fact, dimensions)
          [] k = 3 -> documentationOf(d, fact, dimensions, now)
          [] k = 4 -> setup_guide

\* a run that has written its first k - 1 files and has opened the k-th
\* one when open is TRUE; it has returned when k exceeds the last file
Returned(run) == runs[run].file > Len(OutputFiles)

\* open(path, 'w') and ExcelWriter(path): the file is created or cut to
\* length 0; what is written sits in the buffer until the file is closed
open_output(run) ==
    /\ ~Returned(run)
    /\ ~runs[run].open
    /\ LET path == PathOf(runs[run].output_dir, runs[run].file)
           writers == IF path \in DOMAIN disk THEN disk[path].writers
                      ELSE {}
       IN  disk' = WriteFile(disk, path,
                       [content |-> <<>>, writers |-> writers \cup {run}])
    /\ runs' = [runs EXCEPT ![run].open = TRUE]
    /\ UNCHANGED <<inputVars, results, folder, repair, quick_df, envVars, prepVars,
                   biVars,
                   metrics>>

\* the end of the with block: the buffer is written from offset 0 and the
\* file is closed
close_output(run) ==
    /\ ~Returned(run)
    /\ runs[run].open
    /\ LET path == PathOf(runs[run].output_dir, runs[run].file)
       IN  disk' = [disk EXCEPT ![path].content =
                       <<ContentOf(runs[run].file, source, clock)>>]
    /\ runs' = [runs EXCEPT ![run].open = FALSE, ![run].file = @ + 1]
    /\ UNCHANGED <<inputVars, results, folder, repair, quick_df, envVars, prepVars,
                   biVars,
                   metrics>>

----------------------------------------------------------------------------
(* quick_analysis: the dashboard workbook *)

\* a missing cell of a text column (NaN in an object column)
MissingText == "NaN"

\* the fact table of the dashboard; the calendar columns of Dataset.csv
\* agree with its date column
dashboard_fact_table(src) ==
    [i \in 1..Len(src) |->
        LET r == src[i]
        IN  [ride_id |-> r.ride_id, datetime |-> r.datetime, date |-> r.date,
             hour |-> r.hour, vehicle_type |-> r.vehicle_type,
             from_location |-> r.from_location,
             to_location |-> r.to_location, distance_km |-> r.distance_km,
             weather_condition |-> r.weather_condition,
             base_price |-> r.base_price, final_price |-> r.final_price,
             surge_multiplier |-> r.surge_multiplier,
             waiting_time_minutes |-> r.waiting_time_minutes,
             price_premium_percent |-> r.price_premium_percent,
             temperature |-> r.temperature, humidity |-> r.humidity,
             precipitation |-> r.precipitation,
             is_weekend |-> DayOfWeek(r.date) >= 5,
             month |-> MonthOf(r.date), quarter |-> QuarterOf(r.date),
             day_of_week |-> DayOfWeek(r.date),
             surge_amount |-> r.final_price - r.base_price,
             price_per_km |-> TrueDiv(r.final_price, r.distance_km),
             route |-> r.from_location \o RouteSeparator \o r.to_location]]

time_dim(src) ==
    LET first == FirstOccurrences(Column(src, "date"))
    IN  [k \in 1..Len(first) |->
            LET day == src[first[k]].date
            IN  [date |-> day, month |-> MonthOf(day),
                 quarter |-> QuarterOf(day), day_of_week |-> DayOfWeek(day),
                 is_weekend |-> DayOfWeek(day) >= 5, year |-> 2024,
                 month_name |-> MonthNames[MonthOf(day)],
                 day_name |-> DayNames[DayOfWeek(day) + 1]]]

\* variant: the morning rush lasts through hour 10
hour_dim_time_period_LongRush(h) ==
    IF h < 6 THEN "Late Night"
    ELSE IF h < 8 THEN "Early Morning"
    ELSE IF h < 11 THEN "Morning Rush"
    ELSE IF h < 12 THEN "Late Morning"
    ELSE IF h < 14 THEN "Lunch Time"
    ELSE IF h < 17 THEN "Afternoon"
    ELSE IF h < 19 THEN "Evening Rush"
    ELSE IF h < 22 THEN "Evening"
    ELSE "Night"

\* the chain of conditional expressions that labels the hours
hour_dim_time_period(h) ==
    IF h < 6 THEN "Late Night"
    ELSE IF h < 8 THEN "Early Morning"
    ELSE IF h < 10 THEN "Morning Rush"
    ELSE IF h < 12 THEN "Late Morning"
    ELSE IF h < 14 THEN "Lunch Time"
    ELSE IF h < 17 THEN "Afternoon"
    ELSE IF h < 19 THEN "Evening Rush"
    ELSE IF h < 22 THEN "Evening"
    ELSE "Night"

hour_dim ==
    [i \in 1..24 |->
        [hour |-> i - 1,
         time_period |-> hour_dim_time_period(i - 1),
         is_rush_hour |-> (i - 1) \in {8, 9, 17, 18}]]

vehicle_dim ==
    << [vehicle_type |-> "bike", capacity |-> 1, category |-> "Two Wheeler"],
       [vehicle_type |-> "auto", capacity |-> 3,
        category |-> "Three Wheeler"],
       [vehicle_type |-> "cab", capacity |-> 4, category |-> "Four Wheeler"] >>

\* Series.map(dict): a value that the dict lacks maps to NaN
weather_dim_impact_level(condition) ==
    CASE condition = "Clear" -> "Low"
      [] condition \in {"Clouds", "Haze"} -> "Medium"
      [] condition = "Rain" -> "High"
      [] condition = "Thunderstorm" -> "Very High"
      [] OTHER -> MissingText

weather_dim(src) ==
    LET first == weather_combinations(src)
    IN  [k \in 1..Len(first) |->
            LET r == src[first[k]]
            IN  [weather_condition |-> r.weather_condition,
                 weather_main |-> r.weather_main,
                 weather_description |-> r.weather_description,
                 impact_level |->
                     weather_dim_impact_level(r.weather_condition)]]

\* DataFrame.to_excel writes an infinite float as the text inf and a
\* missing value as an empty cell
ExcelCell(column, value) ==
    IF column = "price_per_km"
    THEN IF value.k = "inf" THEN [k |-> "text inf", n |-> value.n, d |-> 0]
         ELSE IF value.k = "nan" THEN [k |-> "empty", n |-> 0, d |-> 0]
         ELSE value
    ELSE IF column \in {"impact_level", "Column4"}
         THEN IF value = MissingText THEN "" ELSE value
    ELSE value

\* read_excel parses the text inf in a numeric column as the float, and
\* reads an empty cell as a missing value
PandasValue(column, cell) ==
    IF column = "price_per_km"
    THEN IF cell.k = "text inf" THEN [k |-> "inf", n |-> cell.n, d |-> 0]
         ELSE IF cell.k = "empty" THEN NaN
         ELSE cell
    ELSE IF column \in {"impact_level", "Column4"}
         THEN IF cell = "" THEN MissingText ELSE cell
    ELSE cell

to_excel(table) ==
    [i \in 1..Len(table) |->
        [column \in DOMAIN table[i] |-> ExcelCell(column, table[i][column])]]

read_excel(sheet) ==
    [i \in 1..Len(sheet) |->
        [column \in DOMAIN sheet[i] |-> PandasValue(column, sheet[i][column])]]

WorkbookPath == "rapido_dashboard_data.xlsx"

\* the workbook that quick_analysis exports
DashboardWorkbook(src) ==
    [FactRides |-> to_excel(dashboard_fact_table(src)),
     DimTime |-> to_excel(time_dim(src)),
     DimHour |-> to_excel(hour_dim),
     DimVehicle |-> to_excel(vehicle_dim),
     DimWeather |-> to_excel(weather_dim(src))]

\* the rush-hour columns that quick_analysis adds to df
quick_is_morning_rush(hour) == hour >= 8 /\ hour <= 9

quick_is_evening_rush(hour) == hour >= 17 /\ hour <= 18

QuickRow(r) ==
    r @@ [is_morning_rush |-> quick_is_morning_rush(r.hour),
          is_evening_rush |-> quick_is_evening_rush(r.hour),
          is_rush_hour |-> quick_is_morning_rush(r.hour)
                               \/ quick_is_evening_rush(r.hour)]

\* the columns quick_analysis reads, in the order it reads them
QuickColumns ==
    <<"datetime", "date", "hour", "final_price", "base_price",
      "vehicle_type", "distance_km", "waiting_time_minutes",
      "surge_multiplier", "weather_condition", "ride_id", "is_weekend",
      "from_location", "to_location", "price_premium_percent",
      "temperature", "humidity", "precipitation", "month", "quarter",
      "day_of_week", "weather_main", "weather_description">>

\* the script from its first line to the export of the workbook; it ends
\* at the first column that Dataset.csv lacks
quick_analysis ==
    /\ quick_df = None
    /\ LET absent == MissingOf(QuickColumns, source_columns)
       IN  IF absent = <<>>
           THEN /\ quick_df' = [i \in 1..Len(source) |-> QuickRow(source[i])]
                /\ folder' = WriteFile(folder, WorkbookPath,
                                       DashboardWorkbook(source))
           ELSE /\ quick_df' = KeyError({Head(absent)})
                /\ UNCHANGED folder
    /\ UNCHANGED <<inputVars, results, runs, disk, repair, envVars, prepVars,
                   biVars, metrics>>

----------------------------------------------------------------------------
(* fix_weather_dimension and create_clean_weather_dimension *)

\* file_path.replace('.xlsx', '_backup.xlsx')
BackupPath == "rapido_dashboard_data_backup.xlsx"

RepairSheets == {"FactRides", "DimTime", "DimHour", "DimVehicle", "DimWeather"}

\* the header that fix_weather_dimension reads in DimWeather: the columns
\* are called Column1 to Column4
GenericHeader(sheet) ==
    [i \in 1..Len(sheet) |->
        [Column1 |-> sheet[i].weather_condition,
         Column2 |-> sheet[i].weather_main,
         Column3 |-> sheet[i].weather_description,
         Column4 |-> sheet[i].impact_level]]

\* no script runs; script names the last one that ran, error how it ended
Idle(script, error, runs_started) ==
    [script |-> script, pc |-> "idle", error |-> error,
     started |-> runs_started, sheets |-> <<>>, clean |-> <<>>]

\* pd.read_excel of the five sheets
ReadSheets ==
    [sheet \in RepairSheets |-> read_excel(folder[WorkbookPath][sheet])]

\* os.rename(file_path, backup_path)
Renamed(files) ==
    [name \in (DOMAIN files \ {WorkbookPath}) \cup {BackupPath} |->
        IF name = BackupPath THEN files[WorkbookPath] ELSE files[name]]

\* variant: only the new DimWeather is written
Rewritten_OnlyWeather(sheets, clean) ==
    [sheet \in {"DimWeather"} |-> to_excel(clean)]

\* the ExcelWriter block: the four sheets as read, and the new DimWeather
Rewritten(sheets, clean) ==
    [sheet \in RepairSheets |->
        to_excel(IF sheet = "DimWeather" THEN clean ELSE sheets[sheet])]

\* what previous remembers when a script starts: the workbook that the
\* run found, the script that ran before it and how that one ended, and
\* the workbook that the first run found
Found(files, last) ==
    LET first == IF "original" \in DOMAIN previous
                 THEN previous["original"] ELSE files[WorkbookPath]
    IN  WriteFile(WriteFile(WriteFile(previous, "original", first),
                            "found", files[WorkbookPath]),
                  "after", [script |-> last.script, error |-> last.error])

StartRepair(script, key_column, clean) ==
    /\ repair.pc = "idle"
    /\ repair.started < MaxRepairRuns
    /\ LET sheets == ReadSheets
       IN  repair' =
               IF key_column \in ColumnsOf(sheets["DimWeather"])
               THEN [script |-> script, pc |-> "read", error |-> None,
                     started |-> repair.started + 1,
                     sheets |-> sheets, clean |-> clean]
               ELSE Idle(script, KeyError({key_column}), repair.started + 1)
    /\ previous' = Found(folder, repair)
    /\ UNCHANGED <<inputVars, results, runs, disk, folder, quick_df, clock,
                   prepVars,
                   biVars, metrics>>

\* drop_duplicates(subset=['Column1'], keep='first')
dim_weather_clean_Fix(dim_weather) ==
    LET first == FirstOccurrences(Column(dim_weather, "Column1"))
    IN  [k \in 1..Len(first) |-> dim_weather[first[k]]]

fix_read ==
    /\ folder # <<>>
    /\ StartRepair("fix", "Column1",
                   dim_weather_clean_Fix(ReadSheets["DimWeather"]))

\* os.rename replaces an existing backup on POSIX and raises
\* FileExistsError on Windows
fix_backup ==
    /\ repair # None
    /\ repair.script = "fix"
    /\ repair.pc = "read"
    /\ \/ /\ folder' = Renamed(folder)
          /\ repair' = [repair EXCEPT !.pc = "backed"]
       \/ /\ BackupPath \in DOMAIN folder
          /\ repair' = Idle("fix", [type |-> "FileExistsError"],
                            repair.started)
          /\ UNCHANGED folder
    /\ UNCHANGED <<inputVars, results, runs, disk, quick_df, envVars, prepVars,
                   biVars,
                   metrics>>

fix_write ==
    /\ repair # None
    /\ repair.script = "fix"
    /\ repair.pc = "backed"
    /\ folder' = WriteFile(folder, WorkbookPath,
                           Rewritten(repair.sheets, repair.clean))
    /\ repair' = Idle("fix", None, repair.started)
    /\ UNCHANGED <<inputVars, results, runs, disk, quick_df, envVars, prepVars,
                   biVars,
                   metrics>>

weather_summary ==
    << [condition |-> "Clear", main_category |-> "Clear Sky",
        description |-> "Clear weather conditions",
        impact_level |-> "Low", typical_surge |-> "1.37x"],
       [condition |-> "Clouds", main_category |-> "Cloudy",
        description |-> "Partly to mostly cloudy",
        impact_level |-> "Medium", typical_surge |-> "1.50x"],
       [condition |-> "Haze", main_category |-> "Atmospheric Haze",
        description |-> "Reduced visibility due to haze",
        impact_level |-> "Medium", typical_surge |-> "1.60x"],
       [condition |-> "Rain", main_category |-> "Precipitation",
        description |-> "Light to moderate rainfall",
        impact_level |-> "High", typical_surge |-> "1.90x"],
       [condition |-> "Thunderstorm", main_category |-> "Severe Weather",
        description |-> "Thunderstorms with heavy rain",
        impact_level |-> "Very High", typical_surge |-> "2.28x"] >>

\* one row per entry of weather_summary, whatever FactRides holds; the
\* emoji of a row is named by its condition
dim_weather_clean(fact_rides) ==
    [k \in 1..Len(weather_summary) |->
        [weather_condition |-> weather_summary[k].condition,
         main_category |-> weather_summary[k].main_category,
         description |-> weather_summary[k].description,
         impact_level |-> weather_summary[k].impact_level,
         typical_surge_multiplier |-> weather_summary[k].typical_surge,
         severity_score |->
             CASE weather_summary[k].impact_level = "Low" -> 1
               [] weather_summary[k].impact_level = "Medium" -> 2
               [] weather_summary[k].impact_level = "High" -> 3
               [] weather_summary[k].impact_level = "Very High" -> 4,
         weather_emoji |-> weather_summary[k].condition]]

clean_read ==
    /\ folder # <<>>
    /\ StartRepair("clean", "weather_condition",
                   dim_weather_clean(ReadSheets["FactRides"]))

\* if not os.path.exists(backup_path): os.rename(file_path, backup_path)
clean_backup ==
    /\ repair # None
    /\ repair.script = "clean"
    /\ repair.pc = "read"
    /\ folder' = IF BackupPath \notin DOMAIN folder THEN Renamed(folder)
                 ELSE folder
    /\ repair' = [repair EXCEPT !.pc = "backed"]
    /\ UNCHANGED <<inputVars, results, runs, disk, quick_df, envVars, prepVars,
                   biVars,
                   metrics>>

clean_write ==
    /\ repair # None
    /\ repair.script = "clean"
    /\ repair.pc = "backed"
    /\ folder' = WriteFile(folder, WorkbookPath,
                           Rewritten(repair.sheets, repair.clean))
    /\ repair' = Idle("clean", None, repair.started)
    /\ UNCHANGED <<inputVars, results, runs, disk, quick_df, envVars, prepVars,
                   biVars,
                   metrics>>

----------------------------------------------------------------------------
(* RapidoBusinessIntelligence *)

\* variant: the upper edge of every bin is inclusive
categorize_time_period_Inclusive(hour) ==
    IF 0 <= hour /\ hour <= 6 THEN "Late Night"
    ELSE IF 6 <= hour /\ hour <= 8 THEN "Early Morning"
    ELSE IF 8 <= hour /\ hour <= 10 THEN "Morning Rush"
    ELSE IF 10 <= hour /\ hour <= 12 THEN "Late Morning"
    ELSE IF 12 <= hour /\ hour <= 14 THEN "Lunch Time"
    ELSE IF 14 <= hour /\ hour <= 17 THEN "Afternoon"
    ELSE IF 17 <= hour /\ hour <= 19 THEN "Evening Rush"
    ELSE IF 19 <= hour /\ hour <= 22 THEN "Evening"
    ELSE "Night"

categorize_time_period(hour) ==
    IF 0 <= hour /\ hour < 6 THEN "Late Night"
    ELSE IF 6 <= hour /\ hour < 8 THEN "Early Morning"
    ELSE IF 8 <= hour /\ hour < 10 THEN "Morning Rush"
    ELSE IF 10 <= hour /\ hour < 12 THEN "Late Morning"
    ELSE IF 12 <= hour /\ hour < 14 THEN "Lunch Time"
    ELSE IF 14 <= hour /\ hour < 17 THEN "Afternoon"
    ELSE IF 17 <= hour /\ hour < 19 THEN "Evening Rush"
    ELSE IF 19 <= hour /\ hour < 22 THEN "Evening"
    ELSE "Night"

is_morning_rush(hour) == hour >= 8 /\ hour <= 9

\* variant: the evening rush ends before hour 18
is_evening_rush_Exclusive(hour) == hour >= 17 /\ hour < 18

is_evening_rush(hour) == hour >= 17 /\ hour <= 18

PrepareDataRow(r) ==
    r @@ [month_name |-> MonthNames[MonthOf(r.datetime.date)],
          day_name |-> DayNames[DayOfWeek(r.datetime.date) + 1],
          year |-> 2024,
          is_morning_rush |-> is_morning_rush(r.hour),
          is_evening_rush |-> is_evening_rush(r.hour),
          is_rush_hour |-> is_morning_rush(r.hour) \/ is_evening_rush(r.hour),
          detailed_time_period |-> categorize_time_period(r.hour)]

\* the statements of load_and_prepare_data in order: the columns each one
\* reads and the columns it adds
PrepareDataStatements ==
    << [reads |-> <<"datetime">>, adds |-> {}],
       [reads |-> <<"date">>, adds |-> {}],
       [reads |-> <<>>, adds |-> {"month_name", "day_name", "year"}],
       [reads |-> <<"hour">>,
        adds |-> {"is_morning_rush", "is_evening_rush", "is_rush_hour",
                  "detailed_time_period"}] >>

load_and_prepare_data ==
    /\ bi_pc = "new"
    /\ LET k == FailingStatement(PrepareDataStatements, source_columns)
           last == IF k = 0 THEN Len(PrepareDataStatements) ELSE k - 1
           columns == source_columns \cup
                          UNION {PrepareDataStatements[i].adds : i \in 1..last}
       IN  /\ bi_df' = [i \in 1..Len(source) |->
                           Visible(PrepareDataRow(source[i]), columns)]
           /\ IF k = 0
              THEN bi_pc' = "loaded" /\ UNCHANGED bi_error
              ELSE /\ bi_pc' = "failed"
                   /\ bi_error' =
                          KeyError({FirstMissing(PrepareDataStatements[k].reads,
                                                 source_columns)})
    /\ UNCHANGED <<inputVars, otherVars, envVars, prepVars, kpis, metrics>>

\* groupby(c)[v].sum().to_dict()
SumBy(t, c, v) ==
    [key \in Range(Column(t, c)) |->
        SumSeq(Column(SelectSeq(t, LAMBDA r : r[c] = key), v))]

\* groupby(c).size().to_dict() and value_counts().to_dict()
CountBy(t, c) ==
    [key \in Range(Column(t, c)) |->
        Len(SelectSeq(t, LAMBDA r : r[c] = key))]

\* groupby(c)[v].mean().to_dict()
MeanBy(t, c, v) ==
    [key \in Range(Column(t, c)) |->
        Mean(Column(SelectSeq(t, LAMBDA r : r[c] = key), v))]

\* variant: the groups keep the order in which the rides first show them
RouteGroups_FirstSeen(d) ==
    LET pairs == [i \in 1..Len(d) |-> <<d[i].from_location, d[i].to_location>>]
        first == FirstOccurrences(pairs)
    IN  [i \in 1..Len(first) |-> pairs[first[i]]]

\* the group keys of groupby(['from_location', 'to_location'])
RouteGroups(d) ==
    SortedPairs({<<d[i].from_location, d[i].to_location>> : i \in 1..Len(d)})

\* route_performance['final_price']['sum'].nlargest(10).to_dict(): the
\* entries of the dict in insertion order
top_routes(d) ==
    LET groups == RouteGroups(d)
        revenue == [g \in 1..Len(groups) |->
                       Round2Dec(SumSeq(Column(
                           SelectSeq(d, LAMBDA r :
                               <<r.from_location, r.to_location>> = groups[g]),
                           "final_price")))]
        top == NLargest(revenue, 10)
    IN  [k \in 1..Len(top) |->
            [route |-> groups[top[k]], revenue |-> revenue[top[k]]]]

\* groupby(['from_location', 'to_location'])['distance_km'].mean().to_dict():
\* the entries of the dict in insertion order
avg_distance_by_route(d) ==
    LET groups == RouteGroups(d)
    IN  [g \in 1..Len(groups) |->
            [route |-> groups[g],
             distance |->
                 Mean(Column(SelectSeq(d, LAMBDA r :
                                 <<r.from_location, r.to_location>> = groups[g]),
                             "distance_km"))]]

\* the is_weekend column of Dataset.csv: the ride's date is a Saturday or
\* a Sunday
is_weekend(r) == DayOfWeek(r.date) >= 5

\* final_price / base_price, row by row
PriceRatios(d) ==
    [i \in 1..Len(d) |-> TrueDiv(d[i].final_price, d[i].base_price)]

\* the KPIs of the catalog that depend on prices, distances, waiting times,
\* hours, weather conditions and routes; the KPIs built on a standard
\* deviation, a correlation or equal-width bins are left out
Kpi(d, name) ==
    LET morning_rush == SelectSeq(d, LAMBDA r : r.is_morning_rush)
        evening_rush == SelectSeq(d, LAMBDA r : r.is_evening_rush)
        rush_hour_premium ==
            Mean(Column(SelectSeq(d, LAMBDA r : r.is_rush_hour),
                        "final_price"))
        off_peak_premium ==
            Mean(Column(SelectSeq(d, LAMBDA r : ~r.is_rush_hour),
                        "final_price"))
        rain_rides == SelectSeq(d, LAMBDA r : r.weather_condition = "Rain")
        clear_rides == SelectSeq(d, LAMBDA r : r.weather_condition = "Clear")
        storm_rides ==
            SelectSeq(d, LAMBDA r : r.weather_condition = "Thunderstorm")
        total_revenue == SumSeq(Column(d, "final_price"))
        vehicle_revenue_share == SumBy(d, "vehicle_type", "final_price")
        avg_wait_by_area == MeanBy(d, "from_location", "waiting_time_minutes")
    IN  CASE name = "total_revenue" -> SumSeq(Column(d, "final_price"))
          [] name = "avg_revenue_per_ride" -> Mean(Column(d, "final_price"))
          [] name = "revenue_by_vehicle" -> SumBy(d, "vehicle_type", "final_price")
          [] name = "surge_revenue_impact" ->
             SumSeq([i \in 1..Len(d) |-> d[i].final_price - d[i].base_price])
          [] name = "revenue_per_km" ->
             TrueDiv(SumSeq(Column(d, "final_price")),
                     SumSeq(Column(d, "distance_km")))
          [] name = "total_trip_volume" -> Len(d)
          [] name = "avg_trip_distance" -> Mean(Column(d, "distance_km"))
          [] name = "avg_waiting_time" -> Mean(Column(d, "waiting_time_minutes"))
          [] name = "trip_completion_rate" -> Num(1, 1)
          [] name = "peak_hour_trip_distribution" ->
             CountBy(SelectSeq(d, LAMBDA r : r.is_rush_hour), "hour")
          [] name = "morning_rush_demand" -> Len(morning_rush)
          [] name = "evening_rush_demand" -> Len(evening_rush)
          [] name = "weekend_vs_weekday_performance" ->
             [weekend |->
                  SumSeq(Column(SelectSeq(d, LAMBDA r : is_weekend(r)),
                                "final_price")),
              weekday |->
                  SumSeq(Column(SelectSeq(d, LAMBDA r : ~is_weekend(r)),
                                "final_price"))]
          [] name = "hourly_demand_pattern" -> CountBy(d, "hour")
          [] name = "avg_cost_efficiency_ratio" -> MeanFloats(PriceRatios(d))
          [] name = "rush_hour_premium" ->
             Times(FloatDiv(FloatSub(rush_hour_premium, off_peak_premium),
                            off_peak_premium), 100)
          [] name = "weather_surge_frequency" ->
             MeanBy(d, "weather_condition", "surge_multiplier")
          [] name = "rain_vs_clear_multiplier" ->
             IF Len(clear_rides) > 0
             THEN FloatDiv(Mean(Column(rain_rides, "surge_multiplier")),
                           Mean(Column(clear_rides, "surge_multiplier")))
             ELSE Num(0, 1)
          [] name = "weather_demand_correlation" -> CountBy(d, "weather_condition")
          [] name = "storm_revenue_boost" ->
             IF Len(storm_rides) > 0
             THEN Mean(Column(storm_rides, "surge_multiplier"))
             ELSE Num(0, 1)
          [] name = "top_performing_routes" -> top_routes(d)
          [] name = "avg_distance_by_route" -> avg_distance_by_route(d)
          [] name = "surge_pricing_effectiveness" ->
             TrueDiv(SumSeq(Column(SelectSeq(d, LAMBDA r :
                                       r.surge_multiplier > 1200),
                                   "final_price")),
                     SumSeq(Column(d, "final_price")))
          [] name = "market_penetration_by_area" -> CountBy(d, "from_location")
          [] name = "service_quality_index" ->
             [area \in DOMAIN avg_wait_by_area |->
                 FloatDiv(Num(1, 1), avg_wait_by_area[area])]
          [] name = "competitive_pricing_analysis" -> MeanFloats(PriceRatios(d))
          [] name = "revenue_diversification" ->
             [v \in DOMAIN vehicle_revenue_share |->
                 Times(TrueDiv(vehicle_revenue_share[v], total_revenue), 100)]

\* the KPIs of the catalog that the model computes
ModelledKpis ==
    {"total_revenue", "avg_revenue_per_ride",
     "revenue_by_vehicle", "surge_revenue_impact",
     "revenue_per_km", "total_trip_volume",
     "avg_trip_distance", "avg_waiting_time",
     "trip_completion_rate", "peak_hour_trip_distribution",
     "morning_rush_demand", "evening_rush_demand",
     "weekend_vs_weekday_performance",
     "hourly_demand_pattern", "avg_cost_efficiency_ratio",
     "rush_hour_premium", "weather_surge_frequency",
     "rain_vs_clear_multiplier", "weather_demand_correlation",
     "storm_revenue_boost", "top_performing_routes",
     "avg_distance_by_route",
     "surge_pricing_effectiveness", "market_penetration_by_area",
     "service_quality_index", "competitive_pricing_analysis",
     "revenue_diversification"}

KpisOf(d) == [name \in ModelledKpis |-> Kpi(d, name)]

\* the statements of calculate_all_kpis in order: the KPI each one stores
\* and the columns of Dataset.csv it reads
KpiStatement(kpi, reads) == [kpi |-> kpi, reads |-> reads]

KpiStatements ==
    << KpiStatement("total_revenue", <<"final_price">>),
       KpiStatement("avg_revenue_per_ride", <<"final_price">>),
       KpiStatement("revenue_by_vehicle", <<"vehicle_type", "final_price">>),
       KpiStatement("surge_revenue_impact", <<"final_price", "base_price">>),
       KpiStatement("avg_price_premium_percent", <<"price_premium_percent">>),
       KpiStatement("revenue_per_km", <<"final_price", "distance_km">>),
       KpiStatement("avg_cost_efficiency_ratio",
                    <<"final_price", "base_price">>),
       KpiStatement("total_trip_volume", <<>>),
       KpiStatement("avg_trip_distance", <<"distance_km">>),
       KpiStatement("fleet_utilization_by_vehicle", <<"vehicle_type">>),
       KpiStatement("avg_waiting_time", <<"waiting_time_minutes">>),
       KpiStatement("trip_completion_rate", <<>>),
       KpiStatement("peak_hour_trip_distribution", <<"hour">>),
       KpiStatement("distance_category_distribution",
                    <<"distance_category">>),
       KpiStatement("morning_rush_demand", <<>>),
       KpiStatement("evening_rush_demand", <<>>),
       KpiStatement("weekend_vs_weekday_performance",
                    <<"is_weekend", "final_price">>),
       KpiStatement("hourly_demand_pattern", <<"hour">>),
       KpiStatement("day_of_week_performance", <<"final_price">>),
       KpiStatement("monthly_trends", <<"final_price">>),
       KpiStatement("rush_hour_premium", <<"final_price">>),
       KpiStatement("weather_surge_frequency",
                    <<"weather_condition", "surge_multiplier">>),
       KpiStatement("rain_vs_clear_multiplier", <<"surge_multiplier">>),
       KpiStatement("weather_demand_correlation", <<"weather_condition">>),
       KpiStatement("precipitation_impact",
                    <<"precipitation", "surge_multiplier">>),
       KpiStatement("temperature_demand_correlation",
                    <<"temperature", "final_price">>),
       KpiStatement("visibility_impact", <<"visibility">>),
       KpiStatement("storm_revenue_boost", <<"weather_condition">>),
       KpiStatement("top_performing_routes",
                    <<"from_location", "to_location", "final_price",
                      "distance_km">>),
       KpiStatement("avg_distance_by_route",
                    <<"from_location", "to_location", "distance_km">>),
       KpiStatement("route_profitability_index",
                    <<"from_location", "to_location", "final_price",
                      "distance_km">>),
       KpiStatement("surge_pricing_effectiveness",
                    <<"surge_multiplier", "final_price">>),
       KpiStatement("market_penetration_by_area", <<"from_location">>),
       KpiStatement("service_quality_index",
                    <<"from_location", "waiting_time_minutes">>),
       KpiStatement("competitive_pricing_analysis",
                    <<"final_price", "base_price">>),
       KpiStatement("revenue_growth_rate", <<"month", "final_price">>),
       KpiStatement("revenue_diversification",
                    <<"vehicle_type", "final_price">>) >>

\* self.kpis after the statements before statement k, of which the model
\* keeps the KPIs that KpisOf computes
PartialKpis(d, k) ==
    LET stored == {KpiStatements[i].kpi : i \in 1..(k - 1)} \cap ModelledKpis
    IN  [name \in stored |-> Kpi(d, name)]

\* variant: a call adds its trip count to the one that self.kpis holds
Assigned_Accumulating(prior, computed) ==
    [name \in DOMAIN prior \cup DOMAIN computed |->
        IF name \notin DOMAIN computed THEN prior[name]
        ELSE IF name = "total_trip_volume" /\ name \in DOMAIN prior
             THEN prior[name] + computed[name]
             ELSE computed[name]]

\* self.kpis[name] = value, for every value computed: the key is created
\* or its value replaced, the other keys of self.kpis stay
Assigned(prior, computed) ==
    [name \in DOMAIN prior \cup DOMAIN computed |->
        IF name \in DOMAIN computed THEN computed[name] ELSE prior[name]]

\* the statements of calculate_all_kpis, run on self.df and self.kpis
RunKpiStatements ==
    LET k == FailingStatement(KpiStatements, source_columns)
    IN  IF k = 0
        THEN /\ kpis' = Assigned(kpis, KpisOf(bi_df))
             /\ bi_pc' = "kpis"
             /\ UNCHANGED bi_error
        ELSE /\ kpis' = Assigned(kpis, PartialKpis(bi_df, k))
             /\ bi_pc' = "failed"
             /\ bi_error' =
                    KeyError({FirstMissing(KpiStatements[k].reads,
                                           source_columns)})

calculate_all_kpis ==
    /\ bi_pc = "loaded"
    /\ RunKpiStatements
    /\ UNCHANGED <<inputVars, otherVars, envVars, prepVars, bi_df, metrics>>

\* the method is called once more on the same analyzer; previous
\* remembers the ride table and the mapping that the call found
calculate_all_kpis_again ==
    /\ bi_pc = "kpis"
    /\ "first call" \notin DOMAIN previous
    /\ RunKpiStatements
    /\ previous' = WriteFile(previous, "first call",
                             [kpis |-> kpis, df |-> bi_df])
    /\ UNCHANGED <<inputVars, otherVars, clock, prepVars, bi_df, metrics>>

\* the type of the keys of a KPI that is a mapping: the keys of its
\* groupby, value_counts or dict literal
KeyType(kpi) ==
    CASE kpi \in {"top_performing_routes", "avg_distance_by_route",
                  "route_profitability_index"} -> "tuple"
      [] kpi \in {"precipitation_impact", "visibility_impact"} -> "Interval"
      [] kpi \in {"peak_hour_trip_distribution", "hourly_demand_pattern"}
             -> "int"
      [] kpi \in {"revenue_by_vehicle", "fleet_utilization_by_vehicle",
                  "distance_category_distribution",
                  "weekend_vs_weekday_performance",
                  "day_of_week_performance", "monthly_trends",
                  "weather_surge_frequency", "weather_demand_correlation",
                  "vit_university_performance", "popular_destinations",
                  "customer_demand_score", "market_penetration_by_area",
                  "service_quality_index", "revenue_diversification"}
             -> "str"
      [] OTHER -> "scalar"

\* json.dump encodes a dict whose keys are str, int, float, bool or None,
\* and raises TypeError on any other key; default=str only converts values
JsonKeyTypes == {"str", "int", "float", "bool", "NoneType"}

\* the keys of self.kpis in insertion order
KpiOrder(k) ==
    SelectSeq([i \in 1..Len(KpiStatements) |-> KpiStatements[i].kpi],
              LAMBDA name : name \in DOMAIN k)

\* the documents of save_results in the order it dumps them
ResultDocuments ==
    <<"all_kpis.json", "rush_hour_analysis.json", "weekend_analysis.json",
      "weather_analysis.json", "summary_report.json">>

\* the top-level keys of a document, in insertion order
TopLevelKeys(document, k) ==
    CASE document = "all_kpis.json" -> KpiOrder(k)
      [] document = "rush_hour_analysis.json" ->
             <<"morning_rush", "evening_rush">>
      [] document = "weekend_analysis.json" ->
             <<"weekend_patterns", "weekday_patterns">>
      [] document = "weather_analysis.json" ->
             <<"overall_impact", "rain_focus", "seasonal_patterns",
               "hourly_weather_impact", "extreme_weather">>
      [] document = "summary_report.json" ->
             <<"executive_summary", "key_performance_indicators",
               "business_insights">>

\* whether a KPI holds a non-empty dict with keys that json cannot encode
Unencodable(k, name) ==
    /\ KeyType(name) \notin JsonKeyTypes \cup {"scalar"}
    /\ k[name] # <<>>

\* whether the value under a top-level key of a document holds a dict with
\* keys that json cannot encode: the pair-keyed most_popular_routes of a
\* rush with rides, the (column, statistic) keys of overall_impact, a KPI
\* keyed by pairs or intervals
RaisesTypeError(document, key, d, k) ==
    CASE document = "all_kpis.json" -> Unencodable(k, key)
      [] document = "rush_hour_analysis.json" ->
             \E i \in 1..Len(d) :
                 IF key = "morning_rush" THEN d[i].is_morning_rush
                 ELSE d[i].is_evening_rush
      [] document = "weekend_analysis.json" -> FALSE
      [] document = "weather_analysis.json" -> key = "overall_impact"
      [] document = "summary_report.json" ->
             /\ key = "key_performance_indicators"
             /\ \E name \in DOMAIN k : Unencodable(k, name)

\* json.dump(obj, f, indent=2, default=str) writes the document piece by
\* piece: the file holds the top-level keys written before the TypeError
JsonDump(document, d, k) ==
    LET keys == TopLevelKeys(document, k)
        bad == {i \in 1..Len(keys) : RaisesTypeError(document, keys[i], d, k)}
    IN  IF bad = {}
        THEN [complete |-> TRUE, keys |-> keys]
        ELSE [complete |-> FALSE, keys |-> SubSeq(keys, 1, Min(bad) - 1)]

\* the documents that save_results opens: up to the first one whose dump
\* raises
OpenedDocuments(d, k) ==
    LET failing == {i \in 1..Len(ResultDocuments) :
                       ~JsonDump(ResultDocuments[i], d, k).complete}
        last == IF failing = {} THEN Len(ResultDocuments) ELSE Min(failing)
    IN  SubSeq(ResultDocuments, 1, last)

save_results ==
    /\ bi_pc = "kpis"
    /\ LET opened == OpenedDocuments(bi_df, kpis)
           written == [document \in Range(opened) |->
                          JsonDump(document, bi_df, kpis)]
       IN  /\ results' = written @@ results
           /\ IF written[opened[Len(opened)]].complete
              THEN bi_pc' = "saved" /\ UNCHANGED bi_error
              ELSE /\ bi_pc' = "failed"
                   /\ bi_error' = [type |-> "TypeError"]
    /\ UNCHANGED <<inputVars, runs, disk, folder, repair, quick_df, envVars,
                   prepVars,
                   bi_df, kpis, metrics>>

----------------------------------------------------------------------------
(* hybrid dashboard: run_quick_analysis *)

\* idxmax of a grouped sum over an integer key: the smallest key that
\* attains the largest value
IdxMax(f) ==
    Min({key \in DOMAIN f : \A other \in DOMAIN f : f[other] <= f[key]})

MetricsOf(src) ==
    LET d == [i \in 1..Len(src) |->
                 src[i] @@ [route |-> src[i].from_location \o RouteSeparator
                                          \o src[i].to_location]]
        surge == SumSeq([i \in 1..Len(d) |->
                            d[i].final_price - d[i].base_price])
        rain == SelectSeq(d, LAMBDA r : r.weather_condition = "Rain")
        clear == SelectSeq(d, LAMBDA r : r.weather_condition = "Clear")
    IN  [total_revenue |-> SumSeq(Column(d, "final_price")),
         total_trips |-> Len(d),
         avg_revenue_per_ride |-> Mean(Column(d, "final_price")),
         surge_contribution |->
             Times(TrueDiv(surge, SumSeq(Column(d, "final_price"))), 100),
         vit_dependency |->
             Times(TrueDiv(Len(SelectSeq(d, LAMBDA r : Contains(r.route, VIT))),
                           Len(d)), 100),
         peak_hour |-> IdxMax(SumBy(d, "hour", "final_price")),
         rain_premium |->
             Times(Minus(FloatDiv(Mean(Column(rain, "final_price")),
                                  Mean(Column(clear, "final_price"))), 1),
                   100)]

\* the columns run_quick_analysis reads, in the order it reads them
QuickAnalysisColumns ==
    <<"from_location", "to_location", "datetime", "date", "final_price",
      "base_price", "hour", "weather_condition">>

\* the result is the metrics dict, or the exception raised on the way
run_quick_analysis ==
    /\ metrics = <<>>
    /\ LET absent == MissingOf(QuickAnalysisColumns, source_columns)
       IN  metrics' = IF absent = <<>> THEN MetricsOf(source)
                      ELSE KeyError({Head(absent)})
    /\ UNCHANGED <<inputVars, otherVars, envVars, prepVars, biVars>>

Next ==
    \/ load_and_prepare_source_data
    \/ create_fact_table
    \/ create_time_dimension
    \/ create_hour_dimension
    \/ create_location_dimension
    \/ create_weather_dimension
    \/ create_vehicle_dimension
    \/ create_dax_measures
    \/ export_to_excel
    \/ create_data_model_documentation
    \/ generate_power_bi_setup_guide
    \/ load_and_prepare_data
    \/ calculate_all_kpis
    \/ save_results
    \/ run_quick_analysis

Spec == Init /\ [][Next]_vars

\* the same scripts on hour columns that range over -1..24
SpecHours == InitHours /\ [][Next]_vars

\* the same scripts on rides that vary in prices, distance and hour
SpecKpi == InitKpi /\ [][Next]_vars

\* the same scripts on rides that vary in weather condition
SpecWeather == InitWeather /\ [][Next]_vars

\* the same scripts on files whose header lacks columns
SpecSchema == InitSchema /\ [][Next]_vars

\* time passes
Tick ==
    /\ clock < MaxClock
    /\ clock' = clock + 1
    /\ UNCHANGED <<inputVars, otherVars, previous, prepVars, biVars, metrics>>

\* main() of the preparation script is started again on the same
\* Dataset.csv: a new PowerBIDataPreparation, the files of the finished run
\* still in the output directory; previous remembers what that run built
rerun_preparation ==
    /\ prep_pc = "done"
    /\ previous' =
           WriteFile(previous, "preparation",
               [fact_table |-> fact_table,
                dimension_tables |-> dimension_tables,
                finished |-> clock])
    /\ prep_pc' = "new"
    /\ df' = None
    /\ fact_table' = None
    /\ dimension_tables' = <<>>
    /\ prep_error' = None
    /\ UNCHANGED <<inputVars, otherVars, clock, workbook, artifacts, biVars, metrics>>

\* main() of the analysis script is started again: a new
\* RapidoBusinessIntelligence with an empty kpis dict
rerun_analysis ==
    /\ bi_pc = "kpis"
    /\ previous' =
           WriteFile(previous, "analysis", [kpis |-> kpis, finished |-> clock])
    /\ bi_pc' = "new"
    /\ bi_df' = None
    /\ kpis' = <<>>
    /\ bi_error' = None
    /\ UNCHANGED <<inputVars, otherVars, clock, prepVars, metrics>>

RerunNext ==
    \/ Next
    \/ Tick
    \/ rerun_preparation
    \/ rerun_analysis

\* the scripts run again and again while the clock advances
SpecRerun == InitRerun /\ [][RerunNext]_vars

\* the analysis alone, on more routes than top_performing_routes lists
AnalysisNext ==
    \/ load_and_prepare_data
    \/ calculate_all_kpis

SpecTop == InitTop /\ [][AnalysisNext]_vars

\* the analysis with a second call of calculate_all_kpis
TwiceNext ==
    \/ load_and_prepare_data
    \/ calculate_all_kpis
    \/ calculate_all_kpis_again

SpecTwice == InitKpi /\ [][TwiceNext]_vars

\* the same scripts on rides that vary in route and distance
SpecRoutes == InitRoutes /\ [][Next]_vars

\* two preparation processes started on the same Dataset.csv, each with
\* an output directory
InitConcurrent ==
    /\ source \in Datasets(RideProfiles, MaxConcurrentRides)
    /\ source_columns = DatasetColumns
    /\ InitObjects
    /\ InitFiles
    /\ runs \in [Runs -> [file : {1}, open : {FALSE},
                          output_dir : OutputDirs]]
    /\ disk = <<>>
    /\ folder = <<>>
    /\ repair = None

\* rides at every hour of the day
InitDayHours ==
    /\ source \in Datasets({p \in HourProfiles : p.hour \in 0..23},
                            MaxHourRides)
    /\ InitComplete

\* the three scripts that classify hours
ClassifierNext ==
    \/ load_and_prepare_source_data
    \/ create_fact_table
    \/ create_time_dimension
    \/ create_hour_dimension
    \/ load_and_prepare_data
    \/ quick_analysis

SpecClassifiers == InitDayHours /\ [][ClassifierNext]_vars

\* the dashboard workbook as quick_analysis exported it, or with the
\* DimWeather header that fix_weather_dimension reads, and no backup
InitRepair ==
    /\ source \in Datasets(RepairProfiles, MaxRepairRides)
    /\ source_columns = DatasetColumns
    /\ InitObjects
    /\ InitFiles
    /\ runs = <<>>
    /\ disk = <<>>
    /\ \E generic \in BOOLEAN :
           LET exported == DashboardWorkbook(source)
           IN  folder =
                   (WorkbookPath :>
                       IF generic
                       THEN [exported EXCEPT
                                !.DimWeather = GenericHeader(@)]
                       ELSE exported)
    /\ repair = Idle("none", None, 0)

RepairNext ==
    \/ fix_read
    \/ fix_backup
    \/ fix_write
    \/ clean_read
    \/ clean_backup
    \/ clean_write

\* the repair scripts run one after the other, in any order
SpecRepair == InitRepair /\ [][RepairNext]_vars

ConcurrentNext ==
    \/ \E run \in Runs : open_output(run)
    \/ \E run \in Runs : close_output(run)

SpecConcurrent == InitConcurrent /\ [][ConcurrentNext]_vars

----------------------------------------------------------------------------
(* Vocabulary of the properties *)

FactBuilt == fact_table # None

Built(table_name) == table_name \in DOMAIN dimension_tables

PreparationDone == prep_pc = "done"

KpisComputed == bi_pc = "kpis"

KeySet(t, c) == {t[i][c] : i \in 1..Len(t)}

RowsWith(t, c, value) == {i \in 1..Len(t) : t[i][c] = value}

NoDuplicate(t, c) ==
    \A i, j \in 1..Len(t) : t[i][c] = t[j][c] => i = j

----------------------------------------------------------------------------
(* C1 *)

\* C1: the weather dimension has exactly one row per distinct
\* weather_condition of the fact table: no condition is in two rows and the
\* row count is the number of distinct conditions.
C1_OneRowPerCondition ==
    (FactBuilt /\ Built("weather_dimension")) =>
        LET dim == dimension_tables["weather_dimension"]
        IN  /\ NoDuplicate(dim, "weather_condition")
            /\ Len(dim) = Cardinality(KeySet(fact_table, "weather_condition"))

----------------------------------------------------------------------------
(* C2 *)

\* C2: after the preparation every foreign key of every fact row (date,
\* hour of the timestamp, vehicle_type, weather_condition,
\* location_route_id) has a matching row in its dimension table.
C2_ReferentialCompleteness ==
    PreparationDone =>
        \A i \in 1..Len(fact_table) :
            LET f == fact_table[i]
            IN  /\ RowsWith(dimension_tables["time_dimension"],
                            "date", f.date) # {}
                /\ RowsWith(dimension_tables["hour_dimension"],
                            "hour", f.datetime.hour) # {}
                /\ RowsWith(dimension_tables["vehicle_dimension"],
                            "vehicle_type", f.vehicle_type) # {}
                /\ RowsWith(dimension_tables["weather_dimension"],
                            "weather_condition", f.weather_condition) # {}
                /\ RowsWith(dimension_tables["route_dimension"],
                            "location_route_id", f.location_route_id) # {}

\* a finished preparation of two rides on different days, one of them with
\* a vehicle type outside the lookup and the reverse route
C2_Witness ==
    /\ PreparationDone
    /\ Len(fact_table) = 2
    /\ fact_table[1].date # fact_table[2].date
    /\ fact_table[1].location_route_id # fact_table[2].location_route_id
    /\ \E i \in 1..2 : fact_table[i].vehicle_type = "scooter"

----------------------------------------------------------------------------
(* C3 *)

\* C3: for every ride with distance_km = 0 the fact table holds a sentinel
\* price_per_km, not an infinite or undefined one, and the build does not
\* raise; rows with a positive distance hold final_price / distance_km.
C3_ZeroDistanceSentinel ==
    FactBuilt =>
        \A i \in 1..Len(fact_table) :
            IF df[i].distance_km = 0
            THEN fact_table[i].price_per_km.k \notin {"inf", "nan"}
            ELSE fact_table[i].price_per_km =
                     Round2(Num(df[i].final_price, df[i].distance_km))

----------------------------------------------------------------------------
(* C4 *)

\* C4: the fact table has one row per loaded ride, in the same order and with
\* the same ride_id per position, and building it leaves the loaded rides as
\* they were loaded.
C4_OneToOne ==
    FactBuilt =>
        /\ Len(fact_table) = Len(source)
        /\ \A i \in 1..Len(source) :
               fact_table[i].ride_id = ToString(source[i].ride_id)
        /\ Len(df) = Len(source)
        /\ \A i \in 1..Len(source) :
               \A c \in DOMAIN source[i] : df[i][c] = source[i][c]

\* a fact table of two rides, one of them with a zero distance
C4_Witness ==
    /\ FactBuilt
    /\ Len(fact_table) = 2
    /\ \E i \in 1..2 : source[i].distance_km = 0
    /\ \E i \in 1..2 : source[i].distance_km > 0

----------------------------------------------------------------------------
(* C5 *)

FirstRowWith(t, c, value) == Min(RowsWith(t, c, value))

\* C5: when several upstream rows share a weather condition, the weather
\* dimension built from them keeps exactly one row for it, and that row has
\* the description of the first upstream row of the condition.
C5_KeepFirst ==
    Built("weather_dimension") =>
        LET dim == dimension_tables["weather_dimension"]
        IN  \A condition \in KeySet(df, "weather_condition") :
                /\ Cardinality(RowsWith(dim, "weather_condition",
                                        condition)) = 1
                /\ \A i \in RowsWith(dim, "weather_condition", condition) :
                       LET first == df[FirstRowWith(df, "weather_condition",
                                                    condition)]
                       IN  /\ dim[i].weather_main = first.weather_main
                           /\ dim[i].weather_description =
                                  first.weather_description

----------------------------------------------------------------------------
(* C6, C7 *)

\* the bin table of the time periods, in the fixed label order
TimePeriodBins ==
    << [lo |-> 0, hi |-> 6, label |-> "Late Night"],
       [lo |-> 6, hi |-> 8, label |-> "Early Morning"],
       [lo |-> 8, hi |-> 10, label |-> "Morning Rush"],
       [lo |-> 10, hi |-> 12, label |-> "Late Morning"],
       [lo |-> 12, hi |-> 14, label |-> "Lunch Time"],
       [lo |-> 14, hi |-> 17, label |-> "Afternoon"],
       [lo |-> 17, hi |-> 19, label |-> "Evening Rush"],
       [lo |-> 19, hi |-> 22, label |-> "Evening"],
       [lo |-> 22, hi |-> 24, label |-> "Night"] >>

TimePeriodLabels == {TimePeriodBins[b].label : b \in 1..9}

BinsAt(h) ==
    {b \in 1..9 : TimePeriodBins[b].lo <= h /\ h < TimePeriodBins[b].hi}

LabelRank(label) == CHOOSE b \in 1..9 : TimePeriodBins[b].label = label

Categorized(t, label_column) ==
    /\ \A i \in 1..Len(t) :
           t[i].hour \in 0..23 =>
               /\ t[i][label_column] \in TimePeriodLabels
               /\ BinsAt(t[i].hour) = {LabelRank(t[i][label_column])}
    /\ \A i, j \in 1..Len(t) :
           (t[i].hour \in 0..23 /\ t[j].hour \in 0..23
               /\ t[i].hour <= t[j].hour) =>
               LabelRank(t[i][label_column]) <= LabelRank(t[j][label_column])
    /\ \A i \in 1..Len(t) :
           /\ t[i].hour = 0 => t[i][label_column] = "Late Night"
           /\ t[i].hour = 23 => t[i][label_column] = "Night"

\* C6: on the hours 0..23 both time-period categorizers return the label of
\* the one half-open bin that holds the hour; the bins are disjoint and
\* leave no gap, the label rank never decreases as the hour grows, hour 0 is
\* Late Night and hour 23 is Night.
C6_TimePeriodBins ==
    /\ \A h \in 0..23 : Cardinality(BinsAt(h)) = 1
    /\ Built("hour_dimension") =>
           /\ KeySet(dimension_tables["hour_dimension"], "hour") = 0..23
           /\ Categorized(dimension_tables["hour_dimension"], "time_period")
    /\ bi_pc # "new" => Categorized(bi_df, "detailed_time_period")

\* the hour dimension is built and the analysis has labelled a ride of
\* hour 23 (or of another hour on a bin edge)
C6_Witness ==
    /\ Built("hour_dimension")
    /\ bi_pc # "new"
    /\ bi_df[1].hour \in {6, 17, 23}
    /\ bi_df[1].detailed_time_period \in {"Early Morning", "Evening Rush",
                                          "Night"}

\* C7: the categorizer gives no label to an hour outside 0..23 (24, -1): it
\* fails with InvalidInput, so no loaded ride of such an hour has a label.
C7_InvalidHourRejected ==
    bi_pc # "new" =>
        \A i \in 1..Len(bi_df) :
            bi_df[i].hour \notin 0..23 =>
                bi_df[i].detailed_time_period \notin TimePeriodLabels

----------------------------------------------------------------------------
(* C8 *)

FactRevenue == SumSeq(Column(fact_table, "final_price"))

----------------------------------------------------------------------------
(* C9 *)

RECURSIVE SigmaUpTo(_, _)
SigmaUpTo(col, n) == IF n = 0 THEN 0 ELSE SigmaUpTo(col, n - 1) + col[n]

SurgeTotal ==
    SigmaUpTo([i \in 1..Len(source) |->
                  source[i].final_price - source[i].base_price], Len(source))

FinalTotal ==
    SigmaUpTo([i \in 1..Len(source) |-> source[i].final_price], Len(source))

RushRides == {i \in 1..Len(source) : source[i].hour \in {8, 9, 17, 18}}

ExampleRides ==
    /\ Len(source) = 3
    /\ \A i \in 1..3 :
           <<source[i].base_price, source[i].final_price, source[i].hour>> =
               << <<100000, 120000, 8>>, <<100000, 100000, 14>>,
                  <<50000, 90000, 18>> >>[i]

\* C9: with a positive total revenue the surge contribution is
\* 100 * sum(final - base) / sum(final) and morning_rush_demand +
\* evening_rush_demand is the number of rides of the hours 8, 9, 17, 18; the
\* rides (100,120,h8), (100,100,h14), (50,90,h18) give 310, 60/310 and 2.
C9_SurgeAndRushCount ==
    /\ (metrics # <<>> /\ FinalTotal > 0) =>
           /\ metrics.total_revenue = FinalTotal
           /\ metrics.surge_contribution.k = "num"
           /\ metrics.surge_contribution.n * FinalTotal =
                  100 * SurgeTotal * metrics.surge_contribution.d
    /\ KpisComputed =>
           /\ kpis.surge_revenue_impact = SurgeTotal
           /\ kpis.morning_rush_demand + kpis.evening_rush_demand =
                  Cardinality(RushRides)
    /\ (ExampleRides /\ metrics # <<>> /\ KpisComputed) =>
           /\ metrics.total_revenue = 310000
           /\ kpis.total_revenue = 310000
           /\ metrics.surge_contribution = [k |-> "num", n |-> 600, d |-> 31]
           /\ kpis.morning_rush_demand + kpis.evening_rush_demand = 2

\* the three example rides, with both KPI sets computed
C9_Witness ==
    /\ ExampleRides
    /\ metrics # <<>>
    /\ KpisComputed
    /\ kpis.evening_rush_demand = 1

----------------------------------------------------------------------------
(* C10 *)

ObservedDates == KeySet(df, "date")

\* C10: the time dimension has exactly one row for every calendar day from
\* the smallest to the largest ride date, days without a ride included: its
\* row count is max - min + 1, date and date_key have no duplicate, and
\* every observed date is present.
C10_EveryDayInRange ==
    Built("time_dimension") =>
        LET dim == dimension_tables["time_dimension"]
        IN  /\ Len(dim) = Max(ObservedDates) - Min(ObservedDates) + 1
            /\ KeySet(dim, "date") = Min(ObservedDates)..Max(ObservedDates)
            /\ NoDuplicate(dim, "date")
            /\ NoDuplicate(dim, "date_key")
            /\ ObservedDates \subseteq KeySet(dim, "date")

\* a time dimension that holds a day on which no ride occurred
C10_Witness ==
    /\ Built("time_dimension")
    /\ KeySet(dimension_tables["time_dimension"], "date") \ ObservedDates
           # {}

----------------------------------------------------------------------------
(* C11 *)

\* C11: the hour dimension has exactly 24 rows, one for each hour 0..23,
\* whatever hours the rides hold, and is_rush_hour is true exactly on the
\* rows of the hours 8, 9, 17 and 18.
C11_HourDimensionFixed ==
    Built("hour_dimension") =>
        LET t == dimension_tables["hour_dimension"]
        IN  /\ Len(t) = 24
            /\ \A h \in 0..23 : Cardinality(RowsWith(t, "hour", h)) = 1
            /\ \A i \in 1..Len(t) :
                   t[i].is_rush_hour <=>
                       \/ t[i].hour = 8 \/ t[i].hour = 9
                       \/ t[i].hour = 17 \/ t[i].hour = 18

\* the dimension is built for rides none of which falls in a rush hour
C11_Witness ==
    /\ Built("hour_dimension")
    /\ KeySet(source, "hour") \cap {8, 9, 17, 18} = {}
    /\ Cardinality(RowsWith(dimension_tables["hour_dimension"],
                            "is_rush_hour", TRUE)) = 4

----------------------------------------------------------------------------
(* C12 *)

HourCategories == <<"Night", "Morning", "Afternoon", "Evening">>

CategoryRank(label) ==
    CHOOSE k \in 1..Len(HourCategories) : HourCategories[k] = label

\* C12: every hour 0..23 of the hour dimension has exactly one hour_category
\* among Night, Morning, Afternoon, Evening, the category never moves back
\* as the hour grows, and it changes exactly at 6, 12 and 18: hour 6 is the
\* first Morning hour, 12 the first Afternoon hour, 18 the first Evening
\* hour.
C12_HourCategoryBoundaries ==
    Built("hour_dimension") =>
        LET t == dimension_tables["hour_dimension"]
        IN  /\ \A i \in 1..Len(t) : t[i].hour_category \in Range(HourCategories)
            /\ \A i, j \in 1..Len(t) :
                   t[i].hour <= t[j].hour =>
                       CategoryRank(t[i].hour_category)
                           <= CategoryRank(t[j].hour_category)
            /\ \A k \in 2..4 :
                   Min({t[i].hour : i \in RowsWith(t, "hour_category",
                                                   HourCategories[k])})
                       = 6 * (k - 1)

----------------------------------------------------------------------------
(* C13 *)

KnownVehicles == {"bike", "auto", "cab"}

\* capacity, base fare per km and surge sensitivity of the known types
ExpectedAttributes(v) ==
    CASE v = "bike" -> <<1, 12, "High">>
      [] v = "auto" -> <<3, 18, "Medium">>
      [] v = "cab" -> <<4, 25, "Low">>

VehicleAttributes(row) == DOMAIN row \ {"vehicle_type", "vehicle_id"}

\* C13: the vehicle dimension has exactly one row per vehicle_type observed
\* in the rides; the row of bike, auto or cab carries the attributes of the
\* fixed lookup, and the row of any other type exists with every attribute
\* empty, whatever mix of known and unknown types the rides hold.
C13_VehicleRows ==
    Built("vehicle_dimension") =>
        LET t == dimension_tables["vehicle_dimension"]
        IN  /\ KeySet(t, "vehicle_type") = KeySet(df, "vehicle_type")
            /\ NoDuplicate(t, "vehicle_type")
            /\ \A i \in 1..Len(t) :
                   IF t[i].vehicle_type \in KnownVehicles
                   THEN /\ {"capacity", "base_fare_per_km",
                             "surge_sensitivity"} \subseteq DOMAIN t[i]
                        /\ <<t[i].capacity, t[i].base_fare_per_km,
                              t[i].surge_sensitivity>>
                               = ExpectedAttributes(t[i].vehicle_type)
                   ELSE \A a \in VehicleAttributes(t[i]) : t[i][a] = None

\* a type outside the lookup has its row, with empty attributes, next to
\* the row of a known type
C13_Witness ==
    /\ Built("vehicle_dimension")
    /\ LET t == dimension_tables["vehicle_dimension"]
       IN  /\ \E i \in 1..Len(t) :
                  /\ t[i].vehicle_type \notin KnownVehicles
                  /\ VehicleAttributes(t[i]) # {}
                  /\ t[i].capacity = None
           /\ \E j \in 1..Len(t) : t[j].vehicle_type \in KnownVehicles

----------------------------------------------------------------------------
(* C14 *)

RoutePair(r) == <<r.from_location, r.to_location>>

RidesOfPair(pair) == {i \in 1..Len(df) : RoutePair(df[i]) = pair}

\* C14: the route dimension has exactly one row per (from_location,
\* to_location) pair observed in the rides; the row's total_trips is the
\* number of rides of the pair, its min_distance and max_distance bound the
\* distance of every ride of the pair, and the total_trips of all rows add
\* up to the number of rides.
C14_RouteRows ==
    Built("route_dimension") =>
        LET t == dimension_tables["route_dimension"]
            pairs == {RoutePair(df[i]) : i \in 1..Len(df)}
        IN  /\ Len(t) = Cardinality(pairs)
            /\ \A pair \in pairs :
                   \E i \in 1..Len(t) :
                       /\ RoutePair(t[i]) = pair
                       /\ t[i].total_trips = Cardinality(RidesOfPair(pair))
                       /\ \A k \in RidesOfPair(pair) :
                              /\ t[i].min_distance <= df[k].distance_km
                              /\ df[k].distance_km <= t[i].max_distance
            /\ SumSeq(Column(t, "total_trips")) = Len(df)

----------------------------------------------------------------------------
(* C15 *)

\* C15: rain_vs_clear_multiplier is 0 whenever no ride is 'Clear', and it is
\* a defined number for every ride set, also when no ride is 'Rain' and when
\* the mean surge multiplier of the clear rides is 0.
C15_RainClearDefined ==
    KpisComputed =>
        /\ (RowsWith(bi_df, "weather_condition", "Clear") = {}
               => kpis.rain_vs_clear_multiplier = Num(0, 1))
        /\ kpis.rain_vs_clear_multiplier.k = "num"

----------------------------------------------------------------------------
(* C16 *)

Defined(f) == f.k = "num"

\* C16: every ratio KPI of calculate_all_kpis is a defined number, the
\* sentinel 0 when its denominator is zero or undefined: rush_hour_premium
\* without off-peak rides or with a zero off-peak mean, revenue_per_km with
\* a zero total distance, avg_cost_efficiency_ratio with a zero base_price,
\* surge_pricing_effectiveness and revenue_diversification with a zero total
\* revenue, service_quality_index with a zero mean wait of an area.
C16_RatiosResolve ==
    KpisComputed =>
        /\ Defined(kpis.rush_hour_premium)
        /\ (RowsWith(bi_df, "is_rush_hour", FALSE) = {}
               => kpis.rush_hour_premium = Num(0, 1))
        /\ Defined(kpis.revenue_per_km)
        /\ (SumSeq(Column(bi_df, "distance_km")) = 0
               => kpis.revenue_per_km = Num(0, 1))
        /\ Defined(kpis.avg_cost_efficiency_ratio)
        /\ Defined(kpis.surge_pricing_effectiveness)
        /\ (SumSeq(Column(bi_df, "final_price")) = 0
               => kpis.surge_pricing_effectiveness = Num(0, 1))
        /\ \A v \in DOMAIN kpis.revenue_diversification :
               Defined(kpis.revenue_diversification[v])
        /\ \A area \in DOMAIN kpis.service_quality_index :
               Defined(kpis.service_quality_index[area])

----------------------------------------------------------------------------
(* C17 *)

AnalysedPairs == {RoutePair(bi_df[i]) : i \in 1..Len(bi_df)}

AnalysedRidesOf(pair) == {i \in 1..Len(bi_df) : RoutePair(bi_df[i]) = pair}

\* summed final_price of a route, in thousandths
RouteRevenue(pair) ==
    SumSeq(Column(SelectSeq(bi_df, LAMBDA r : RoutePair(r) = pair),
                  "final_price"))

FirstRide(pair) == Min(AnalysedRidesOf(pair))

\* the list holds min(10, number of routes) distinct routes with their
\* revenue, in descending order of revenue, equal revenues in the given
\* order (by key, or by first ride), and no unlisted route would come
\* before a listed one
RankedBy(top, order) ==
    LET listed == {top[k].route : k \in 1..Len(top)}
        Earlier(p, q) ==
            IF order = "key" THEN PairLess(p, q)
            ELSE FirstRide(p) < FirstRide(q)
        Ahead(p, rp, q, rq) == rp > rq \/ (rp = rq /\ Earlier(p, q))
    IN  /\ Len(top) = Min({10, Cardinality(AnalysedPairs)})
        /\ listed \subseteq AnalysedPairs
        /\ Cardinality(listed) = Len(top)
        /\ \A k \in 1..Len(top) :
               top[k].revenue = Round2Dec(RouteRevenue(top[k].route))
        /\ \A k, l \in 1..Len(top) :
               k < l => Ahead(top[k].route, top[k].revenue,
                              top[l].route, top[l].revenue)
        /\ \A k \in 1..Len(top) : \A q \in AnalysedPairs \ listed :
               Ahead(top[k].route, top[k].revenue,
                     q, Round2Dec(RouteRevenue(q)))

\* C17: top_performing_routes lists min(10, number of distinct routes)
\* routes in descending order of summed final_price, every listed route
\* earns at least what every unlisted route earns, and routes of equal
\* revenue are ordered, and selected at the cut-off, by first-encountered
\* key: the route whose first ride comes earlier in the input comes first.
C17_TopRoutesFirstEncountered ==
    KpisComputed =>
        RankedBy(kpis.top_performing_routes, "first ride")

\* C17 as amended: the same list, but routes of equal revenue are ordered,
\* and selected at the cut-off, by ascending (from_location, to_location)
\* key, the order of the grouped series.
C17_TopRoutesByKey ==
    KpisComputed =>
        RankedBy(kpis.top_performing_routes, "key")

\* more than ten routes, and the route cut off ties with the last listed
\* one although its first ride comes earlier in the input
C17_Witness ==
    /\ KpisComputed
    /\ Cardinality(AnalysedPairs) > 10
    /\ LET top == kpis.top_performing_routes
       IN  \E q \in AnalysedPairs \ {top[k].route : k \in 1..Len(top)} :
               /\ Round2Dec(RouteRevenue(q)) = top[Len(top)].revenue
               /\ FirstRide(q) < FirstRide(top[Len(top)].route)

----------------------------------------------------------------------------
(* C18 *)

Rerun(script) == script \in DOMAIN previous

----------------------------------------------------------------------------
(* C19 *)

ReadBy(statements) ==
    UNION {Range(statements[i].reads) : i \in 1..Len(statements)}

\* the columns of Dataset.csv that each script requires
RequiredByPreparation ==
    (ReadBy(LoadStatements) \cup Range(fact_columns) \cup {"weather_main"})
        \cap DatasetColumns

RequiredByAnalysis == ReadBy(PrepareDataStatements) \cup ReadBy(KpiStatements)

SchemaMismatch(columns) == [type |-> "SchemaMismatch", columns |-> columns]

\* C19: when the source table lacks required columns, loading fails with a
\* SchemaMismatch that names exactly the missing columns, before any fact
\* or dimension table or KPI is computed and before any output file is
\* written.
C19_SchemaMismatchOnLoad ==
    /\ (RequiredByPreparation \ source_columns # {} /\ prep_pc # "new") =>
           /\ prep_pc = "failed"
           /\ prep_error =
                  SchemaMismatch(RequiredByPreparation \ source_columns)
           /\ fact_table = None
           /\ dimension_tables = <<>>
           /\ workbook = <<>>
           /\ artifacts = <<>>
    /\ (RequiredByAnalysis \ source_columns # {} /\ bi_pc # "new") =>
           /\ bi_pc = "failed"
           /\ bi_error = SchemaMismatch(RequiredByAnalysis \ source_columns)
           /\ kpis = <<>>

----------------------------------------------------------------------------
(* C20 *)

Documented == "data_model_documentation.json" \in DOMAIN artifacts

\* C20: every relationship that the documentation declares names a
\* from-column of the fact table built by create_fact_table and a to-column
\* of the exported dimension sheet it points to, so every fact row carries
\* the five foreign keys date, hour, vehicle_type, weather_condition and
\* location_route_id.
C20_DeclaredRelationshipsResolve ==
    Documented =>
        LET declared ==
                artifacts["data_model_documentation.json"].relationships
        IN  /\ \A k \in 1..Len(declared) :
                   /\ \A i \in 1..Len(fact_table) :
                          declared[k].from_column \in DOMAIN fact_table[i]
                   /\ declared[k].to_table \in DOMAIN workbook
                   /\ \A i \in 1..Len(workbook[declared[k].to_table]) :
                          declared[k].to_column
                              \in DOMAIN workbook[declared[k].to_table][i]
            /\ {declared[k].from_column : k \in 1..Len(declared)}
                   = {"date", "hour", "vehicle_type", "weather_condition",
                      "location_route_id"}

----------------------------------------------------------------------------
(* C21 *)

SaveAttempted == "all_kpis.json" \in DOMAIN results

\* C21: for every KPI set produced by calculate_all_kpis, save_results
\* completes without an exception, all_kpis.json is a complete document
\* that holds every KPI name of the catalog, the KPIs keyed by a
\* (from_location, to_location) pair included, and all five result
\* documents are written completely.
C21_SaveWritesCatalog ==
    SaveAttempted =>
        /\ bi_pc = "saved"
        /\ bi_error = None
        /\ results["all_kpis.json"].complete
        /\ ModelledKpis \subseteq Range(results["all_kpis.json"].keys)
        /\ DOMAIN results = Range(ResultDocuments)
        /\ \A document \in DOMAIN results : results[document].complete

----------------------------------------------------------------------------
(* C22 *)

DistinctOutputDirs ==
    /\ runs # <<>>
    /\ \A r1, r2 \in Runs :
           r1 # r2 => runs[r1].output_dir # runs[r2].output_dir

\* C22: two runs of the preparation that execute side by side with
\* distinct output directories never write the same file path, and under
\* every interleaving of their file writes the workbook, documentation,
\* DAX measures file and setup guide of a run that has returned hold what
\* that run writes when it executes alone.
C22_DistinctDirsNeverShareAPath ==
    DistinctOutputDirs =>
        /\ \A path \in DOMAIN disk : Cardinality(disk[path].writers) <= 1
        /\ \A run \in Runs :
               Returned(run) =>
                   \A k \in 1..Len(OutputFiles) :
                       disk[PathOf(runs[run].output_dir, k)].content
                           = <<ContentOf(k, source, clock)>>

----------------------------------------------------------------------------
(* C23 *)

\* the script named has rewritten the workbook and has ended
Repaired(script) ==
    /\ repair # None
    /\ repair.script = script
    /\ repair.pc = "idle"
    /\ repair.error = None

\* C23: after create_clean_weather_dimension has rewritten the workbook,
\* DimWeather has no duplicate weather_condition and every
\* weather_condition of FactRides, also one outside Clear, Clouds, Haze,
\* Rain and Thunderstorm, has exactly one matching DimWeather row.
C23_CleanManyToOne ==
    Repaired("clean") =>
        LET book == folder[WorkbookPath]
        IN  /\ NoDuplicate(book.DimWeather, "weather_condition")
            /\ \A i \in 1..Len(book.FactRides) :
                   Cardinality(
                       RowsWith(book.DimWeather, "weather_condition",
                                book.FactRides[i].weather_condition)) = 1

----------------------------------------------------------------------------
(* C24 *)

CalledTwice == "first call" \in DOMAIN previous

----------------------------------------------------------------------------
(* C25 *)

KnownConditions == {"Clear", "Clouds", "Haze", "Rain", "Thunderstorm"}

\* C25: once the weather dimension is built, every row of it has a
\* severity score in 1..5, an impact category and an expected surge
\* multiplier; over the rows of the five known conditions a higher
\* severity goes with a higher expected surge multiplier, in the order
\* Clear, Clouds, Haze, Rain, Thunderstorm; and a condition outside the
\* lookups does not make the preparation fail.
C25_WeatherLookups ==
    /\ prep_pc # "failed"
    /\ Built("weather_dimension") =>
           LET rows == dimension_tables["weather_dimension"]
               known == {i \in 1..Len(rows) :
                            rows[i].weather_condition \in KnownConditions}
           IN  /\ \A i \in 1..Len(rows) :
                      /\ rows[i].severity_score \in 1..5
                      /\ rows[i].impact_category
                             \in {"Low Impact", "Medium Impact",
                                  "High Impact", "Unknown"}
                      /\ rows[i].expected_surge_multiplier >= 1000
               /\ \A i, j \in known :
                      (rows[i].severity_score < rows[j].severity_score)
                          <=> (rows[i].expected_surge_multiplier
                                   < rows[j].expected_surge_multiplier)
               /\ \A i \in known :
                      rows[i].severity_score =
                          CASE rows[i].weather_condition = "Clear" -> 1
                            [] rows[i].weather_condition = "Clouds" -> 2
                            [] rows[i].weather_condition = "Haze" -> 3
                            [] rows[i].weather_condition = "Rain" -> 4
                            [] rows[i].weather_condition = "Thunderstorm"
                                   -> 5

----------------------------------------------------------------------------
(* C26 *)

RushLabels == {"Morning Rush", "Evening Rush"}

HoursClassified ==
    /\ Built("hour_dimension")
    /\ bi_pc = "loaded"
    /\ WorkbookPath \in DOMAIN folder

\* C26: for every hour 0..23 the hour dimension of the preparation, the
\* hour sheet of the dashboard workbook and the columns that the analysis
\* and quick_analysis add to their rides give the same time-period label
\* and the same rush-hour flag, and in each of them the flag is true
\* exactly when the label is Morning Rush or Evening Rush.
C26_HourClassifiersAgree ==
    HoursClassified =>
        LET prepared == dimension_tables["hour_dimension"]
            exported == folder[WorkbookPath].DimHour
        IN  /\ {prepared[i].hour : i \in 1..Len(prepared)} = 0..23
            /\ {exported[i].hour : i \in 1..Len(exported)} = 0..23
            /\ \A i \in 1..Len(prepared) :
                   prepared[i].is_rush_hour
                       <=> prepared[i].time_period \in RushLabels
            /\ \A i \in 1..Len(prepared), j \in 1..Len(exported) :
                   prepared[i].hour = exported[j].hour =>
                       /\ prepared[i].time_period = exported[j].time_period
                       /\ prepared[i].is_rush_hour = exported[j].is_rush_hour
            /\ \A i \in 1..Len(prepared), j \in 1..Len(bi_df) :
                   prepared[i].hour = bi_df[j].hour =>
                       /\ prepared[i].time_period
                              = bi_df[j].detailed_time_period
                       /\ prepared[i].is_rush_hour = bi_df[j].is_rush_hour
                       /\ prepared[i].is_rush_hour = quick_df[j].is_rush_hour
                       /\ bi_df[j].is_rush_hour
                              = (bi_df[j].is_morning_rush
                                     \/ bi_df[j].is_evening_rush)

C26_Witness ==
    /\ HoursClassified
    /\ bi_df[1].hour = 18
    /\ bi_df[1].is_rush_hour
    /\ quick_df[1].is_rush_hour

----------------------------------------------------------------------------
(* C27 *)

\* C27: two rides have the same location_route_id only if they have the
\* same from_location and the same to_location, also when a location name
\* contains the separator; so no two rows of the route dimension share a
\* location_route_id, and the total_trips joined to a row counts the
\* rides of the row's pair only.
C27_RouteKeyIdentifiesRoute ==
    /\ df # None =>
           \A i, j \in 1..Len(df) :
               ("location_route_id" \in DOMAIN df[i]
                   /\ df[i].location_route_id = df[j].location_route_id)
                       => RoutePair(df[i]) = RoutePair(df[j])
    /\ Built("route_dimension") =>
           LET t == dimension_tables["route_dimension"]
           IN  /\ NoDuplicate(t, "location_route_id")
               /\ \A i \in 1..Len(t) :
                      t[i].total_trips
                          = Cardinality(RidesOfPair(RoutePair(t[i])))

----------------------------------------------------------------------------
(* C28 *)

\* the workbook as it was before the first repair
OriginalAt(path) ==
    /\ path \in DOMAIN folder
    /\ folder[path] = previous["original"]

\* C28: once a weather-repair script has run, at every step of every run
\* the original workbook is at the workbook path or at the backup path,
\* and between runs the backup file, if there is one, holds the original
\* workbook as it was before the first repair.
C28_BackupKeepsOriginal ==
    "original" \in DOMAIN previous =>
        /\ OriginalAt(WorkbookPath) \/ OriginalAt(BackupPath)
        /\ (repair.pc = "idle" /\ BackupPath \in DOMAIN folder)
               => OriginalAt(BackupPath)

----------------------------------------------------------------------------
(* C29 *)

\* a second run of fix_weather_dimension, right after a first one that
\* rewrote the workbook, has rewritten it
FixedTwice ==
    /\ Repaired("fix")
    /\ previous["after"] = [script |-> "fix", error |-> None]

\* C29: when a weather-repair script has rewritten the workbook, the
\* workbook has exactly the five sheets, its FactRides, DimTime, DimHour
\* and DimVehicle hold the rows that the run found, and after a second
\* run of fix_weather_dimension DimWeather is as the first run left it.
C29_OnlyDimWeatherChanges ==
    /\ (Repaired("fix") \/ Repaired("clean")) =>
           LET book == folder[WorkbookPath]
           IN  /\ DOMAIN book = RepairSheets
               /\ \A sheet \in RepairSheets \ {"DimWeather"} :
                      book[sheet] = previous["found"][sheet]
    /\ FixedTwice =>
           folder[WorkbookPath].DimWeather = previous["found"].DimWeather

\* the second run of fix_weather_dimension has ended, on a workbook whose
\* DimWeather the first run had shortened, with a ride of price_per_km inf
C29_Witness ==
    /\ FixedTwice
    /\ Len(folder[WorkbookPath].DimWeather)
           < Len(previous["original"].DimWeather)
    /\ \E i \in 1..Len(folder[WorkbookPath].FactRides) :
           folder[WorkbookPath].FactRides[i].distance_km = 0

----------------------------------------------------------------------------
(* C30 *)

\* the sum of the values of a mapping of integers
RECURSIVE Total(_)
Total(f) ==
    IF DOMAIN f = {} THEN 0
    ELSE LET key == CHOOSE k \in DOMAIN f : TRUE
         IN  f[key] + Total([k \in DOMAIN f \ {key} |-> f[k]])

\* the sum of the values of a mapping of floats
RECURSIVE FloatTotal(_)
FloatTotal(f) ==
    IF DOMAIN f = {} THEN Num(0, 1)
    ELSE LET key == CHOOSE k \in DOMAIN f : TRUE
         IN  FloatAdd(f[key], FloatTotal([k \in DOMAIN f \ {key} |-> f[k]]))

\* the grouped KPIs that add up whatever the prices are
SumsPartitionRides ==
    /\ Total(kpis.revenue_by_vehicle) = kpis.total_revenue
    /\ kpis.weekend_vs_weekday_performance.weekend
           + kpis.weekend_vs_weekday_performance.weekday
               = kpis.total_revenue
    /\ Total(kpis.hourly_demand_pattern) = kpis.total_trip_volume
    /\ Total(kpis.weather_demand_correlation) = kpis.total_trip_volume

\* C30: once calculate_all_kpis has run on a non-empty ride set, the
\* values of revenue_by_vehicle sum to total_revenue, weekend plus weekday
\* revenue equals total_revenue, the revenue_diversification percentages
\* sum to 100, and the counts of hourly_demand_pattern and of
\* weather_demand_correlation each sum to total_trip_volume.
C30_GroupedKpisPartition ==
    KpisComputed =>
        /\ SumsPartitionRides
        /\ FloatTotal(kpis.revenue_diversification) = Num(100, 1)

====
